---------------------------- MODULE Spec2Model ----------------------------
(***************************************************************************)
(* Resume_parser: the matching, scoring and ranking engine                 *)
(* (services/search_engine.py) over the candidate store that               *)
(* save_candidate_data (app.py) fills.                                     *)
(*                                                                         *)
(* A Python str is modelled as a sequence of one-character strings, so     *)
(* that lower(), strip(), re.sub, `in`, startswith and endswith are        *)
(* computed character by character.                                        *)
(***************************************************************************)
EXTENDS Integers, Sequences, FiniteSets, TLC

VARIABLES
    m_required,      \* _skills_match / _normalize_skill: argument required_skill / skill
    m_candidate,     \* _skills_match: argument candidate_skill
    m_op,            \* which function has returned: "none", "_skills_match", "_normalize_skill"
    m_match,         \* value returned by _skills_match
    m_normalized,    \* value returned by _normalize_skill
    skills,          \* table skills: rows [name, normalized_name], id = position
    candidates,      \* table candidates: rows [email, skills (ids, via candidate_skills)], id = position
    education,       \* table education: rows [candidate_id, degree]
    job_roles,       \* SearchEngine.job_roles of the engine built for the request
    op,              \* the operation that ran last
    arg,             \* its string argument: the role key or the query
    filters,         \* search_candidates: the education filter of the request, << >> for none
    raised,          \* the exception the operation raised, "none" when it returned
    retrieved,       \* ids of the rows .all() returned, in the order returned
    scored,          \* what the search loop computed for each retrieved candidate
    response,        \* what the operation returned
    x_experiences,   \* _calculate_work_experience_years: argument experiences
    x_now,           \* what datetime.now() gives: [year, month]
    x_date,          \* _parse_date: argument date_str
    x_op,            \* which function has returned: "none", "_calculate_work_experience_years", "_parse_date"
    x_totals,        \* the values of total_months: before the loop and after each entry
    x_years,         \* value returned by _calculate_work_experience_years, in tenths of a year
    x_parsed,        \* value returned by _parse_date: [year, month]
    sd_table,        \* ShortlistedDatabase: table shortlisted_candidates, rows in insertion order
    sd_recorded,     \* the (name, skills, projects) of the entries stored since the last clear_all
    rs_table,        \* ShortlistedResumesDB: table shortlisted_candidates, rows in insertion order
    rs_sequence,     \* ShortlistedResumesDB: the AUTOINCREMENT counter of its table
    sl_op,           \* the shortlist operation that ran last
    sl_args,         \* its arguments
    sl_result,       \* what it returned
    sl_before,       \* the two tables before it ran
    rs_added,        \* the [id, candidate_id, match_percentage] of every add_shortlisted_resume call that inserted a row
    rs_listed,       \* the [candidate_id, id] the callers hold: returned by a successful add, not yet removed
    m_raised,        \* the exception _skills_match raised, "none" when it returned
    w_pc,            \* each concurrent writer: the step of its call it is at
    w_call,          \* each concurrent writer: the arguments of its call
    w_seen,          \* each concurrent writer: the position of the row its SELECT gave, 0 for none
    w_result,        \* each concurrent writer: what its call returned
    sl_fault,        \* the statement at which the store failed during the shortlist operation, "none" if at none
    sl_raised,       \* the exception that left the shortlist operation, "none" when it returned
    db_objects,      \* the default path: the classes that have an object on shortlisted_resumes.db
    db_schema,       \* the default path: the class whose CREATE TABLE made shortlisted_candidates, "none" before
    db_table,        \* the default path: the rows of shortlisted_candidates
    db_sequence      \* the default path: the AUTOINCREMENT counter of shortlisted_candidates

matchVars == <<m_required, m_candidate, m_op, m_match, m_normalized, m_raised>>
storeVars == <<skills, candidates, education>>
callVars  == <<op, arg, filters, raised, job_roles, retrieved, scored, response>>
expVars   == <<x_experiences, x_now, x_date, x_op, x_totals, x_years, x_parsed>>
shortVars == <<sd_table, sd_recorded, rs_table, rs_sequence, sl_op, sl_args, sl_result,
               sl_before, rs_added, rs_listed>>
writerVars == <<w_pc, w_call, w_seen, w_result>>
faultVars == <<sl_fault, sl_raised>>
sharedVars == <<db_objects, db_schema, db_table, db_sequence>>
vars      == <<matchVars, storeVars, callVars, expVars, shortVars, writerVars, faultVars, sharedVars>>

\* the concurrent callers of the shortlist stores
Writers == {1, 2}

(***************************************************************************)
(* Characters and the str methods the engine uses                          *)
(***************************************************************************)
UpperAlpha == <<"A","B","C","D","E","F","G","H","I","J","K","L","M",
                "N","O","P","Q","R","S","T","U","V","W","X","Y","Z">>
LowerAlpha == <<"a","b","c","d","e","f","g","h","i","j","k","l","m",
                "n","o","p","q","r","s","t","u","v","w","x","y","z">>

\* str.lower() on one character
char_lower(ch) ==
    IF \E i \in DOMAIN UpperAlpha : UpperAlpha[i] = ch
    THEN LowerAlpha[CHOOSE i \in DOMAIN UpperAlpha : UpperAlpha[i] = ch]
    ELSE ch

\* str.lower()
str_lower(s) == [i \in DOMAIN s |-> char_lower(s[i])]

\* the whitespace characters of the modelled alphabet (str.strip(), regex \s)
Whitespace == {" ", "\t"}

\* a class that forgets the underscore: [.\-\s]
SeparatorClass_no_underscore == {".", "-"} \cup Whitespace

\* the regex character class [.\-_\s]
SeparatorClass == {".", "-", "_"} \cup Whitespace

RECURSIVE str_lstrip(_)
str_lstrip(s) ==
    IF s # << >> /\ Head(s) \in Whitespace THEN str_lstrip(Tail(s)) ELSE s

RECURSIVE str_rstrip(_)
str_rstrip(s) ==
    IF s # << >> /\ s[Len(s)] \in Whitespace
    THEN str_rstrip(SubSeq(s, 1, Len(s) - 1))
    ELSE s

\* str.strip()
str_strip(s) == str_rstrip(str_lstrip(s))

\* s with its longest prefix of SeparatorClass characters removed: one match of [.\-_\s]+
RECURSIVE skip_separator_run(_)
skip_separator_run(s) ==
    IF s # << >> /\ Head(s) \in SeparatorClass THEN skip_separator_run(Tail(s)) ELSE s

\* re.sub(r'[.\-_\s]+', '', s): every maximal run of separators is replaced by ''
RECURSIVE re_sub_separators(_)
re_sub_separators(s) ==
    IF s = << >> THEN << >>
    ELSE IF Head(s) \in SeparatorClass
         THEN re_sub_separators(skip_separator_run(s))
         ELSE <<Head(s)>> \o re_sub_separators(Tail(s))

\* Python `a in b` on strings
str_in(a, b) ==
    \E off \in 0..(Len(b) - Len(a)) : \A i \in 1..Len(a) : b[off + i] = a[i]

\* b.startswith(a)
str_startswith(b, a) ==
    Len(a) <= Len(b) /\ \A i \in 1..Len(a) : b[i] = a[i]

\* b.endswith(a)
str_endswith(b, a) ==
    Len(a) <= Len(b) /\ \A i \in 1..Len(a) : b[Len(b) - Len(a) + i] = a[i]

\* a normalizer that keeps letters and digits only, as re.sub(r'[^a-z0-9]', '', s) would
_normalize_skill_alnum_only(skill) ==
    SelectSeq(str_lower(skill),
              LAMBDA ch : \/ \E i \in DOMAIN LowerAlpha : LowerAlpha[i] = ch
                          \/ ch \in {"0", "1", "2", "3", "4", "5", "6", "7", "8", "9"})

\* SearchEngine._normalize_skill
_normalize_skill(skill) == re_sub_separators(str_strip(str_lower(skill)))

(***************************************************************************)
(* The synonym table of _skills_match                                      *)
(***************************************************************************)
w_javascript == <<"j", "a", "v", "a", "s", "c", "r", "i", "p", "t">>
w_js == <<"j", "s">>
w_typescript == <<"t", "y", "p", "e", "s", "c", "r", "i", "p", "t">>
w_ts == <<"t", "s">>
w_mongodb == <<"m", "o", "n", "g", "o", "d", "b">>
w_mongo == <<"m", "o", "n", "g", "o">>
w_nodejs == <<"n", "o", "d", "e", "j", "s">>
w_node == <<"n", "o", "d", "e">>
w_reactjs == <<"r", "e", "a", "c", "t", "j", "s">>
w_react == <<"r", "e", "a", "c", "t">>
w_nextjs == <<"n", "e", "x", "t", "j", "s">>
w_next == <<"n", "e", "x", "t">>
w_expressjs == <<"e", "x", "p", "r", "e", "s", "s", "j", "s">>
w_express == <<"e", "x", "p", "r", "e", "s", "s">>
w_git == <<"g", "i", "t">>
w_github == <<"g", "i", "t", "h", "u", "b">>
w_gitlab == <<"g", "i", "t", "l", "a", "b">>
w_aws == <<"a", "w", "s">>
w_amazonwebservices == <<"a", "m", "a", "z", "o", "n", "w", "e", "b", "s", "e", "r", "v", "i", "c", "e", "s">>
w_azure == <<"a", "z", "u", "r", "e">>
w_microsoftazure == <<"m", "i", "c", "r", "o", "s", "o", "f", "t", "a", "z", "u", "r", "e">>
w_gcp == <<"g", "c", "p">>
w_googlecloudplatform == <<"g", "o", "o", "g", "l", "e", "c", "l", "o", "u", "d", "p", "l", "a", "t", "f", "o", "r", "m">>
w_googlecloud == <<"g", "o", "o", "g", "l", "e", "c", "l", "o", "u", "d">>
w_c == <<"c">>
w_clang == <<"c", "l", "a", "n", "g">>
w_cprogramming == <<"c", "p", "r", "o", "g", "r", "a", "m", "m", "i", "n", "g">>
w_cpp == <<"c", "p", "p">>
w_c_plus_plus == <<"c", "+", "+">>
w_cplusplus == <<"c", "p", "l", "u", "s", "p", "l", "u", "s">>
w_csharp == <<"c", "s", "h", "a", "r", "p">>
w_c_hash == <<"c", "#">>
w_r == <<"r">>
w_rprogramming == <<"r", "p", "r", "o", "g", "r", "a", "m", "m", "i", "n", "g">>
w_rlanguage == <<"r", "l", "a", "n", "g", "u", "a", "g", "e">>
w_go == <<"g", "o">>
w_golang == <<"g", "o", "l", "a", "n", "g">>

\* skill_synonyms, in the dict's order
skill_synonyms ==
  <<
    [key |-> w_javascript, synonyms |-> <<w_javascript, w_js>>],
    [key |-> w_typescript, synonyms |-> <<w_typescript, w_ts>>],
    [key |-> w_mongodb, synonyms |-> <<w_mongodb, w_mongo>>],
    [key |-> w_nodejs, synonyms |-> <<w_node, w_nodejs>>],
    [key |-> w_reactjs, synonyms |-> <<w_react, w_reactjs>>],
    [key |-> w_react, synonyms |-> <<w_react, w_reactjs>>],
    [key |-> w_nextjs, synonyms |-> <<w_next, w_nextjs>>],
    [key |-> w_next, synonyms |-> <<w_next, w_nextjs>>],
    [key |-> w_expressjs, synonyms |-> <<w_express, w_expressjs>>],
    [key |-> w_express, synonyms |-> <<w_express, w_expressjs>>],
    [key |-> w_git, synonyms |-> <<w_git, w_github, w_gitlab>>],
    [key |-> w_github, synonyms |-> <<w_git, w_github, w_gitlab>>],
    [key |-> w_gitlab, synonyms |-> <<w_git, w_github, w_gitlab>>],
    [key |-> w_aws, synonyms |-> <<w_aws, w_amazonwebservices>>],
    [key |-> w_amazonwebservices, synonyms |-> <<w_aws, w_amazonwebservices>>],
    [key |-> w_azure, synonyms |-> <<w_azure, w_microsoftazure>>],
    [key |-> w_microsoftazure, synonyms |-> <<w_azure, w_microsoftazure>>],
    [key |-> w_gcp, synonyms |-> <<w_gcp, w_googlecloudplatform, w_googlecloud>>],
    [key |-> w_googlecloudplatform, synonyms |-> <<w_gcp, w_googlecloudplatform, w_googlecloud>>],
    [key |-> w_googlecloud, synonyms |-> <<w_gcp, w_googlecloudplatform, w_googlecloud>>],
    [key |-> w_c, synonyms |-> <<w_c, w_clang, w_cprogramming>>],
    [key |-> w_cpp, synonyms |-> <<w_cpp, w_c_plus_plus, w_cplusplus>>],
    [key |-> w_c_plus_plus, synonyms |-> <<w_cpp, w_c_plus_plus, w_cplusplus>>],
    [key |-> w_csharp, synonyms |-> <<w_csharp, w_c_hash>>],
    [key |-> w_c_hash, synonyms |-> <<w_csharp, w_c_hash>>],
    [key |-> w_r, synonyms |-> <<w_r, w_rprogramming, w_rlanguage>>],
    [key |-> w_go, synonyms |-> <<w_go, w_golang>>],
    [key |-> w_golang, synonyms |-> <<w_go, w_golang>>]
  >>

SeqRange(q) == {q[i] : i \in DOMAIN q}

\* "x in synonyms" for a list
list_contains(list, x) == \E i \in DOMAIN list : list[i] = x

\* the loop over skill_synonyms.items(): both normalized forms in one synonyms list
in_same_synonyms(nr, nc) ==
    \E k \in DOMAIN skill_synonyms :
        /\ list_contains(skill_synonyms[k].synonyms, nr)
        /\ list_contains(skill_synonyms[k].synonyms, nc)

\* the gate written ratio > 0.6
ratio_gt_06(required_len, candidate_len) == 10 * required_len > 6 * candidate_len

\* ratio >= 0.6 with ratio = required_len / candidate_len (true division of two ints;
\* for lengths below 60 the double comparison agrees with the exact one)
ratio_ge_06(required_len, candidate_len) == 10 * required_len >= 6 * candidate_len

\* (candidate_len / required_len) >= 0.75
ratio_ge_075(candidate_len, required_len) == 100 * candidate_len >= 75 * required_len

\* the body of _skills_match with no least length for a prefix or suffix
match_normalized_any_affix(normalized_required, normalized_candidate) ==
    LET required_len  == Len(normalized_required)
        candidate_len == Len(normalized_candidate)
    IN  IF normalized_required = normalized_candidate THEN TRUE
        ELSE IF in_same_synonyms(normalized_required, normalized_candidate) THEN TRUE
        ELSE IF /\ str_in(normalized_required, normalized_candidate)
                /\ \/ str_startswith(normalized_candidate, normalized_required)
                   \/ str_endswith(normalized_candidate, normalized_required)
             THEN TRUE
        ELSE IF /\ str_in(normalized_required, normalized_candidate)
                /\ required_len >= 5
                /\ ratio_ge_06(required_len, candidate_len)
             THEN TRUE
        ELSE IF /\ str_in(normalized_candidate, normalized_required)
                /\ candidate_len >= 4
                /\ ratio_ge_075(candidate_len, required_len)
             THEN TRUE
        ELSE FALSE

\* the body of _skills_match on the two normalized forms
match_normalized(normalized_required, normalized_candidate) ==
    LET required_len  == Len(normalized_required)
        candidate_len == Len(normalized_candidate)
    IN  IF normalized_required = normalized_candidate THEN TRUE
        ELSE IF in_same_synonyms(normalized_required, normalized_candidate) THEN TRUE
        ELSE IF /\ str_in(normalized_required, normalized_candidate)
                /\ required_len >= 4
                /\ \/ str_startswith(normalized_candidate, normalized_required)
                   \/ str_endswith(normalized_candidate, normalized_required)
             THEN TRUE
        ELSE IF /\ str_in(normalized_required, normalized_candidate)
                /\ required_len >= 5
                /\ ratio_ge_06(required_len, candidate_len)
             THEN TRUE
        ELSE IF /\ str_in(normalized_candidate, normalized_required)
                /\ candidate_len >= 4
                /\ ratio_ge_075(candidate_len, required_len)
             THEN TRUE
        ELSE FALSE

\* a / b of two ints raises ZeroDivisionError for b = 0
division_raises(denominator) == denominator = 0

\* the exception the body of _skills_match raises on the two normalized forms: the
\* divisions of lines 177 and 184 are reached behind the returns before them
raised_normalized(normalized_required, normalized_candidate) ==
    LET required_len  == Len(normalized_required)
        candidate_len == Len(normalized_candidate)
    IN  IF normalized_required = normalized_candidate THEN "none"
        ELSE IF in_same_synonyms(normalized_required, normalized_candidate) THEN "none"
        ELSE IF /\ str_in(normalized_required, normalized_candidate)
                /\ required_len >= 4
                /\ \/ str_startswith(normalized_candidate, normalized_required)
                   \/ str_endswith(normalized_candidate, normalized_required)
             THEN "none"
        ELSE IF /\ str_in(normalized_required, normalized_candidate)
                /\ required_len >= 5
                /\ division_raises(candidate_len)
             THEN "ZeroDivisionError"
        ELSE IF /\ str_in(normalized_required, normalized_candidate)
                /\ required_len >= 5
                /\ ratio_ge_06(required_len, candidate_len)
             THEN "none"
        ELSE IF /\ str_in(normalized_candidate, normalized_required)
                /\ candidate_len >= 4
                /\ division_raises(required_len)
             THEN "ZeroDivisionError"
        ELSE "none"

\* the exception SearchEngine._skills_match raises, "none" when it returns
_skills_match_raised(required_skill, candidate_skill) ==
    raised_normalized(_normalize_skill(required_skill), _normalize_skill(candidate_skill))

\* SearchEngine._skills_match (\E x \in {e} : ... binds x to the value of e)
_skills_match(required_skill, candidate_skill) ==
    \E normalized_required \in {_normalize_skill(required_skill)} :
    \E normalized_candidate \in {_normalize_skill(candidate_skill)} :
        match_normalized(normalized_required, normalized_candidate)

(***************************************************************************)
(* Skill spellings used as inputs                                          *)
(***************************************************************************)
s_empty      == << >>
s_blank      == <<" ">>
s_seps       == <<".", "_", "-">>
s_Node_js    == <<"N", "o", "d", "e", ".", "j", "s">>
s_node_js    == <<"n", "o", "d", "e", "_", "j", "s">>
s_NODE_JS    == <<"N", "O", "D", "E", " ", "J", "S">>
s_Python     == <<"P", "y", "t", "h", "o", "n">>
s_python     == <<"p", "y", "t", "h", "o", "n">>
s_React      == <<"R", "e", "a", "c", "t">>
s_React_js   == <<"R", "e", "a", "c", "t", ".", "j", "s">>
s_ReactJS    == <<"R", "e", "a", "c", "t", "J", "S">>
s_css        == <<"c", "s", "s">>
s_java       == <<"j", "a", "v", "a">>
s_JavaScript == <<"J", "a", "v", "a", "S", "c", "r", "i", "p", "t">>
s_Git_Hub    == <<" ", "G", "i", "t", " ", "H", "u", "b", " ">>
s_Cpp        == <<"C", "+", "+">>
s_sql        == <<"s", "q", "l">>
s_SQL        == <<"S", "Q", "L">>
s_mysql      == <<"m", "y", "s", "q", "l">>
s_postgres   == <<"p", "o", "s", "t", "g", "r", "e", "s">>
s_postgresql == <<"p", "o", "s", "t", "g", "r", "e", "s", "q", "l">>
s_script     == <<"s", "c", "r", "i", "p", "t">>
s_tab_go     == <<"\t", "g", "o", "\t">>
s_node_dash_js == <<"n", "o", "d", "e", " ", "-", " ", "j", "s">>
s_Go         == <<"G", "o">>

\* every spelling the synonym table lists
SynonymSpellings ==
    UNION {SeqRange(skill_synonyms[k].synonyms) : k \in DOMAIN skill_synonyms}

Vocabulary ==
    {s_empty, s_blank, s_seps, s_Node_js, s_node_js, s_NODE_JS, s_Python, s_python,
     s_React, s_css, s_java, s_JavaScript, s_Git_Hub, s_Cpp, s_sql, s_mysql,
     s_postgres, s_postgresql, s_script, s_tab_go, s_node_dash_js}

\* longest run of "x" and longest padding of "y" in the generated spellings
MaxRun == 6
MaxPad == 3

Rep(ch, n) == [i \in 1..n |-> ch]

\* "y"*j + "x"*n + "y"*k: one spelling inside another at the start, the end or the
\* middle, with every length ratio around 0.6 and 0.75
PaddedRuns ==
    {Rep("y", j) \o Rep("x", n) \o Rep("y", k) :
        n \in 0..MaxRun, j \in 0..MaxPad, k \in 0..MaxPad}

MatchPool == SynonymSpellings \cup Vocabulary \cup PaddedRuns

(***************************************************************************)
(* The two pure functions, applied to drawn arguments                      *)
(***************************************************************************)
\* the arguments are drawn; the store, which the pure functions do not use, is empty
MatchInit ==
    /\ m_required \in MatchPool
    /\ m_candidate \in MatchPool
    /\ m_op = "none"
    /\ m_match = FALSE
    /\ m_normalized = << >>
    /\ skills = << >>
    /\ candidates = << >>
    /\ education = << >>
    /\ job_roles = << >>
    /\ op = "none"
    /\ arg = << >>
    /\ filters = << >>
    /\ raised = "none"
    /\ retrieved = << >>
    /\ scored = << >>
    /\ response = << >>
    /\ x_experiences = << >>
    /\ x_now = [year |-> 2024, month |-> 6]
    /\ x_date = << >>
    /\ x_op = "none"
    /\ x_totals = << >>
    /\ x_years = 0
    /\ x_parsed = [year |-> 0, month |-> 0]
    /\ sd_table = << >>
    /\ sd_recorded = {}
    /\ rs_table = << >>
    /\ rs_sequence = 0
    /\ sl_op = "none"
    /\ sl_args = << >>
    /\ sl_result = FALSE
    /\ sl_before = [sd |-> << >>, rs |-> << >>]
    /\ rs_added = {}
    /\ rs_listed = {}
    /\ m_raised = "none"
    /\ w_pc = [w \in Writers |-> "idle"]
    /\ w_call = [w \in Writers |-> << >>]
    /\ w_seen = [w \in Writers |-> 0]
    /\ w_result = [w \in Writers |-> FALSE]
    /\ sl_fault = "none"
    /\ sl_raised = "none"
    /\ db_objects = {}
    /\ db_schema = "none"
    /\ db_table = << >>
    /\ db_sequence = 0

CallSkillsMatch ==
    /\ m_op = "none"
    /\ m_op' = "_skills_match"
    /\ m_match' = _skills_match(m_required, m_candidate)
    /\ m_raised' = _skills_match_raised(m_required, m_candidate)
    /\ UNCHANGED <<m_required, m_candidate, m_normalized>>

CallNormalizeSkill ==
    /\ m_op = "none"
    /\ m_op' = "_normalize_skill"
    /\ m_normalized' = _normalize_skill(m_required)
    /\ UNCHANGED <<m_required, m_candidate, m_match, m_raised>>

MatchNext ==
    \/ CallSkillsMatch /\ UNCHANGED <<storeVars, callVars, expVars, shortVars, writerVars, faultVars, sharedVars>>
    \/ CallNormalizeSkill /\ UNCHANGED <<storeVars, callVars, expVars, shortVars, writerVars, faultVars, sharedVars>>

SpecMatch == MatchInit /\ [][MatchNext]_vars

(***************************************************************************)
(* The candidate store and save_candidate_data                             *)
(***************************************************************************)
w_sql == <<"s", "q", "l">>

\* the skill names resumes carry
SkillPool == {s_python, s_React_js, s_SQL}

Emails == {"a@x", "b@x"}

\* bound of the store: rows of candidate_skills and of education
MaxLinks == 3

d_BSc == <<"B", "S", "c">>

\* the education entries resumes carry (their degrees)
ResumeEducationLists == {<< >>, <<d_BSc>>}

\* db.query(M).filter(cond).first(): hits[i] tells whether row i meets cond; the
\* position of the first row that does, 0 for None
\* (hits is evaluated once: h ranges over the one-element set {hits})
first_where(hits) ==
    CHOOSE at \in {IF \E i \in DOMAIN h : h[i]
                   THEN CHOOSE i \in DOMAIN h : h[i] /\ \A j \in 1..(i - 1) : ~h[j]
                   ELSE 0 : h \in {hits}} : TRUE

\* one turn of "for skill_name in parsed_data.get('skills', [])" of save_candidate_data:
\* st = [skills |-> table skills, mine |-> candidate.skills]
process_skill(st, skill_name) ==
    LET found == first_where([i \in DOMAIN st.skills |->
                                st.skills[i].normalized_name = str_lower(skill_name)])
    IN  IF skill_name = << >> THEN st
        ELSE IF found = 0
        THEN [skills |-> Append(st.skills, [name |-> skill_name,
                                            normalized_name |-> str_lower(skill_name)]),
              mine   |-> Append(st.mine, Len(st.skills) + 1)]
        ELSE [skills |-> st.skills,
              mine   |-> IF list_contains(st.mine, found) THEN st.mine
                         ELSE Append(st.mine, found)]

RECURSIVE process_skills(_, _)
process_skills(st, names) ==
    IF names = << >> THEN st
    ELSE process_skills(process_skill(st, Head(names)), Tail(names))

RECURSIVE SumLinks(_)
SumLinks(cs) == IF cs = << >> THEN 0 ELSE Len(Head(cs).skills) + SumLinks(Tail(cs))

\* the resumes' skill lists: none, one or two names of the pool, and one list with
\* an empty name
ResumeSkillLists ==
    {<< >>, <<s_empty, s_SQL>>}
        \cup {<<a>> : a \in SkillPool}
        \cup {<<a, b>> : a \in SkillPool, b \in SkillPool}

\* "for edu_data in parsed_data.get('education', [])": one new row for each entry
process_education(table, candidate_id, degrees) ==
    table \o [i \in DOMAIN degrees |-> [candidate_id |-> candidate_id, degree |-> degrees[i]]]

\* save_candidate_data: the candidate row is found by email or created, then the
\* skills are found by normalized_name or created, and linked to the candidate, and
\* the education entries are added
save_candidate_data(email, skill_names, degrees) ==
    \E found \in {first_where([i \in DOMAIN candidates |->
                                  candidates[i].email = email])} :
    \E rows \in {IF found = 0
                 THEN Append(candidates, [email |-> email, skills |-> << >>])
                 ELSE candidates} :
    \E cid \in {IF found = 0 THEN Len(rows) ELSE found} :
    \E st \in {process_skills([skills |-> skills, mine |-> rows[cid].skills],
                               skill_names)} :
    \E after \in {[rows EXCEPT ![cid].skills = st.mine]} :
        /\ SumLinks(after) + Len(education) + Len(degrees) <= MaxLinks
        /\ candidates' = after
        /\ skills' = st.skills
        /\ education' = process_education(education, cid, degrees)

\* POST /api/upload-resume reaching save_candidate_data; its response is not modelled
SaveCandidateData ==
    /\ op = "none"
    /\ \E email \in Emails, skill_names \in ResumeSkillLists,
          degrees \in ResumeEducationLists :
          save_candidate_data(email, skill_names, degrees)
    /\ UNCHANGED callVars

\* [skill.name for skill in candidate.skills]
skill_names_of(row) == [i \in DOMAIN row.skills |-> skills[row.skills[i]].name]

\* [skill.normalized_name.lower() for skill in candidate.skills]
normalized_names_of(row) ==
    [i \in DOMAIN row.skills |-> str_lower(skills[row.skills[i]].normalized_name)]

(***************************************************************************)
(* Job roles (job_roles.json) and search_by_job_role                       *)
(***************************************************************************)
k_full_stack == <<"f", "u", "l", "l", "_", "s", "t", "a", "c", "k">>
k_backend    == <<"b", "a", "c", "k", "e", "n", "d">>
k_intern     == <<"i", "n", "t", "e", "r", "n">>
k_frontend   == <<"f", "r", "o", "n", "t", "e", "n", "d">>
k_Full_Stack == <<"F", "u", "l", "l", " ", "S", "t", "a", "c", "k">>
k_FULL_STACK == <<"F", "U", "L", "L", "-", "S", "T", "A", "C", "K">>
k_fullstack  == <<"f", "u", "l", "l", "s", "t", "a", "c", "k">>

\* the content of job_roles.json: role key -> {title, skills}, in file order
JobRolesJson ==
    << [key |-> k_full_stack, title |-> "Full Stack Developer",
        skills |-> <<s_Python, s_React>>],
       [key |-> k_backend, title |-> "Backend Developer",
        skills |-> <<s_Python, s_SQL, s_Node_js>>],
       [key |-> k_intern, title |-> "Intern", skills |-> << >>],
       [key |-> k_frontend, title |-> "Frontend Developer",
        skills |-> <<s_React, s_React_js, s_ReactJS, s_Python>>] >>

\* _load_job_roles, run by SearchEngine.__init__ for each request: the file's content,
\* or {} when the file is missing or is not JSON
_load_job_roles == {JobRolesJson, << >>}

RoleKeyInputs ==
    {k_full_stack, k_Full_Stack, k_FULL_STACK, k_fullstack, k_backend, k_intern,
     k_frontend}

\* s.replace(old, new) for one-character old and new
str_replace(s, old, new) == [i \in DOMAIN s |-> IF s[i] = old THEN new ELSE s[i]]

\* a key normalizer that forgets the hyphens: .lower().replace(' ', '_')
normalize_role_key_no_hyphen(job_role_key) ==
    str_replace(str_lower(job_role_key), " ", "_")

\* job_role_key.lower().replace(' ', '_').replace('-', '_')
normalize_role_key(job_role_key) ==
    str_replace(str_replace(str_lower(job_role_key), " ", "_"), "-", "_")

\* the shortlist threshold of both searches
MatchThreshold == 70

\* int((match_count / total_required) * 100): the double product truncated; it equals
\* the exact floor for every total below 40
int_percentage(match_count, total) == (100 * match_count) \div total

\* an inner loop that gives up after the first candidate skill
any_skill_matches_first_only(required_skill, candidate_skills) ==
    candidate_skills # << >> /\ _skills_match(required_skill, Head(candidate_skills))

\* the inner loop over candidate_skills with its break: true at the first match
RECURSIVE any_skill_matches(_, _)
any_skill_matches(required_skill, candidate_skills) ==
    IF candidate_skills = << >> THEN FALSE
    ELSE IF _skills_match(required_skill, Head(candidate_skills)) THEN TRUE
    ELSE any_skill_matches(required_skill, Tail(candidate_skills))

\* the loop over required_skills: acc = [matched_skills, missing_skills]
RECURSIVE match_required(_, _, _)
match_required(required_skills, candidate_skills, acc) ==
    IF required_skills = << >> THEN acc
    ELSE LET required_skill == Head(required_skills)
         IN  IF any_skill_matches(required_skill, candidate_skills)
             THEN match_required(Tail(required_skills), candidate_skills,
                      [acc EXCEPT !.matched_skills = Append(@, required_skill)])
             ELSE match_required(Tail(required_skills), candidate_skills,
                      [acc EXCEPT !.missing_skills = Append(@, required_skill)])

\* the body of "for candidate in all_candidates" up to match_percentage
score_for_role(id, required_skills) ==
    LET candidate_skills == skill_names_of(candidates[id])
        acc == match_required(required_skills, candidate_skills,
                   [matched_skills |-> << >>, missing_skills |-> << >>])
        match_count == Len(acc.matched_skills)
        total_required == Len(required_skills)
    IN  [id |-> id,
         match_percentage |-> IF total_required > 0
                              THEN int_percentage(match_count, total_required)
                              ELSE 0,
         matched_skills |-> acc.matched_skills,
         missing_skills |-> acc.missing_skills,
         matched_count |-> match_count,
         total_required |-> total_required,
         all_candidate_skills |-> candidate_skills]

\* the search without its filter, as in the engine's version that has none
passes_threshold_always(match_percentage) == TRUE

\* "if match_percentage >= 70: results.append(...)"
passes_threshold(match_percentage) == match_percentage >= MatchThreshold

\* results.sort(key=lambda x: x["match_percentage"], reverse=True): list.sort is
\* stable, also with reverse=True; each element goes behind those not smaller
\* an insertion that puts x before its equals: sorted ascending, then reversed
RECURSIVE insert_desc_before_equals(_, _)
insert_desc_before_equals(sorted, x) ==
    IF sorted = << >> THEN <<x>>
    ELSE IF Head(sorted).match_percentage > x.match_percentage
         THEN <<Head(sorted)>> \o insert_desc_before_equals(Tail(sorted), x)
         ELSE <<x>> \o sorted

RECURSIVE insert_desc(_, _)
insert_desc(sorted, x) ==
    IF sorted = << >> THEN <<x>>
    ELSE IF Head(sorted).match_percentage >= x.match_percentage
         THEN <<Head(sorted)>> \o insert_desc(Tail(sorted), x)
         ELSE <<x>> \o sorted

RECURSIVE sort_by_match_percentage(_)
sort_by_match_percentage(results) ==
    IF results = << >> THEN << >>
    ELSE insert_desc(sort_by_match_percentage(SubSeq(results, 1, Len(results) - 1)),
                     results[Len(results)])

\* the orders in which .all() may return the rows with the given ids (no ORDER BY)
RowOrders(ids) ==
    {p \in [1..Cardinality(ids) -> ids] : \A i, j \in DOMAIN p : i # j => p[i] # p[j]}

\* the position of the role with this key in job_roles, 0 when it has none
role_index(roles, key) == first_where([i \in DOMAIN roles |-> roles[i].key = key])

\* (\E x \in {e} : ... binds x to the value of e)
search_by_job_role(job_role_key, all_candidates) ==
    \E key \in {normalize_role_key(job_role_key)} :
    \E at \in {role_index(job_roles', key)} :
        IF at = 0
        THEN /\ retrieved' = << >>
             /\ scored' = << >>
             /\ response' = [success |-> FALSE,
                             message |-> key,
                             available_roles |-> [i \in DOMAIN job_roles' |-> job_roles'[i].key]]
        ELSE \E computed \in {[i \in DOMAIN all_candidates |->
                                  score_for_role(all_candidates[i], job_roles'[at].skills)]} :
             \E ranked \in {sort_by_match_percentage(
                                SelectSeq(computed,
                                    LAMBDA r : passes_threshold(r.match_percentage)))} :
                 /\ retrieved' = all_candidates
                 /\ scored' = computed
                 /\ response' = [success |-> TRUE,
                                 job_role |-> job_roles'[at].title,
                                 required_skills |-> job_roles'[at].skills,
                                 total_candidates |-> Len(ranked),
                                 candidates |-> ranked]

\* the inner loop over candidate_skills with its break: true when a call of
\* _skills_match raises before the loop ends
RECURSIVE any_skill_raises(_, _)
any_skill_raises(required_skill, candidate_skills) ==
    IF candidate_skills = << >> THEN FALSE
    ELSE IF _skills_match_raised(required_skill, Head(candidate_skills)) # "none" THEN TRUE
    ELSE IF _skills_match(required_skill, Head(candidate_skills)) THEN FALSE
    ELSE any_skill_raises(required_skill, Tail(candidate_skills))

\* the exception the loops of search_by_job_role raise for the role at position at
\* (0: no such role, the function returns before the loops); the division of line
\* 225 is behind "if total_required > 0"
loops_raised(roles, at, all_candidates) ==
    IF at = 0 THEN "none"
    ELSE IF \E i \in DOMAIN all_candidates, k \in DOMAIN roles[at].skills :
                any_skill_raises(roles[at].skills[k],
                                 skill_names_of(candidates[all_candidates[i]]))
         THEN "ZeroDivisionError"
         ELSE "none"

\* the exception search_by_job_role raises, "none" when it returns
search_by_job_role_raised(roles, job_role_key, all_candidates) ==
    loops_raised(roles, role_index(roles, normalize_role_key(job_role_key)), all_candidates)

SearchByJobRole ==
    /\ op = "none"
    /\ job_roles' \in _load_job_roles
    /\ \E job_role_key \in RoleKeyInputs, all_candidates \in RowOrders(DOMAIN candidates) :
        \E exception \in {search_by_job_role_raised(job_roles', job_role_key,
                                                    all_candidates)} :
            /\ IF exception = "none"
               THEN search_by_job_role(job_role_key, all_candidates)
               ELSE /\ retrieved' = << >>
                    /\ scored' = << >>
                    /\ response' = << >>
            /\ raised' = exception
            /\ op' = "search_by_job_role"
            /\ arg' = job_role_key
            /\ filters' = << >>
            /\ UNCHANGED storeVars

(***************************************************************************)
(* Free-text search: search_candidates                                     *)
(***************************************************************************)
q_python_sql    == <<"p", "y", "t", "h", "o", "n", " ", "s", "q", "l">>
q_Python_SQL    == <<"P", "y", "t", "h", "o", "n", ",", " ", "S", "Q", "L">>
q_python_sql_js == <<"p", "y", "t", "h", "o", "n", "+", "s", "q", "l", "+", "j", "s">>
q_delims        == <<",", " ", "+">>
q_p_y_t_sql     == <<"p", " ", "y", " ", "t", " ", "s", "q", "l">>
q_percent       == <<"%">>
q_any_o         == <<"_", "o">>
q_react_js      == <<"r", "e", "a", "c", "t", ".", "j", "s">>

Queries ==
    {s_empty, q_delims, q_python_sql, q_Python_SQL, q_python_sql_js, q_p_y_t_sql,
     w_reactjs, q_react_js, s_React_js, q_percent, q_any_o}

\* the regex character class [,+\s]
QueryDelimiters == {",", "+"} \cup Whitespace

RECURSIVE skip_delimiter_run(_)
skip_delimiter_run(s) ==
    IF s # << >> /\ Head(s) \in QueryDelimiters THEN skip_delimiter_run(Tail(s)) ELSE s

\* re.split(r'[,+\s]+', s): the pieces between the runs of delimiters, the empty
\* pieces at the two ends included; piece is the piece being read
RECURSIVE re_split(_, _)
re_split(s, piece) ==
    IF s = << >> THEN <<piece>>
    ELSE IF Head(s) \in QueryDelimiters
         THEN <<piece>> \o re_split(skip_delimiter_run(s), << >>)
         ELSE re_split(Tail(s), Append(piece, Head(s)))

\* [term.strip() for term in terms if term.strip()]
strip_and_drop_empty(terms) ==
    LET kept == SelectSeq(terms, LAMBDA term : str_strip(term) # << >>)
    IN  [i \in DOMAIN kept |-> str_strip(kept[i])]

\* SearchEngine._parse_search_query
_parse_search_query(query) == strip_and_drop_empty(re_split(str_lower(query), << >>))

\* SQLite's  s LIKE pattern : % is any run of characters, _ any one character,
\* letters compare without case
RECURSIVE sql_like(_, _)
sql_like(s, pattern) ==
    IF pattern = << >> THEN s = << >>
    ELSE IF Head(pattern) = "%"
         THEN \/ sql_like(s, Tail(pattern))
              \/ s # << >> /\ sql_like(Tail(s), pattern)
    ELSE IF s = << >> THEN FALSE
    ELSE IF Head(pattern) = "_" \/ char_lower(Head(pattern)) = char_lower(Head(s))
         THEN sql_like(Tail(s), Tail(pattern))
    ELSE FALSE

\* one entry of skill_filters for a row of skills:
\* lower(name) LIKE '%term%' OR lower(normalized_name) LIKE '%term%'
skill_filter(row, term) ==
    \/ sql_like(str_lower(row.name), <<"%">> \o term \o <<"%">>)
    \/ sql_like(str_lower(row.normalized_name), <<"%">> \o term \o <<"%">>)

\* SearchEngine._apply_skill_search: the ids the query selects. Without terms the
\* query is left alone; with terms it joins candidate_skills and keeps, once each,
\* the candidates having a skill that some term's filter accepts
_apply_skill_search(skill_terms) ==
    IF skill_terms = << >> THEN DOMAIN candidates
    ELSE {id \in DOMAIN candidates :
            \E i \in DOMAIN candidates[id].skills, t \in DOMAIN skill_terms :
                skill_filter(skills[candidates[id].skills[i]], skill_terms[t])}

\* SearchEngine._calculate_match_percentage
_calculate_match_percentage(id, search_terms) ==
    IF search_terms = << >> THEN 0
    ELSE LET candidate_skills == normalized_names_of(candidates[id])
             matched == SelectSeq(search_terms,
                            LAMBDA term : \E i \in DOMAIN candidate_skills :
                                              str_in(term, candidate_skills[i]))
         IN  int_percentage(Len(matched), Len(search_terms))

\* candidate.skills[:10]
KeySkillsLimit == 10

key_skills_of(row) ==
    LET names == skill_names_of(row)
    IN  IF Len(names) <= KeySkillsLimit THEN names ELSE SubSeq(names, 1, KeySkillsLimit)

\* the ids base_query selects for the query, before _apply_filters
selected_ids(query) ==
    IF query # << >> THEN _apply_skill_search(_parse_search_query(query))
    ELSE DOMAIN candidates

f_bs == <<"b", "s">>

\* the education parameter of GET /api/search: absent, or a text
EducationFilters == {<< >>, f_bs}

\* SearchEngine._apply_filters: without an education filter the query is left alone;
\* with one, the name func is looked up, and the module does not define it (func is
\* imported inside _apply_skill_search only), so NameError is raised before the
\* join is built
_apply_filters(ids, education_filter) ==
    IF education_filter = << >>
    THEN [raised |-> "none", ids |-> ids]
    ELSE [raised |-> "NameError", ids |-> {}]

search_candidates(query, rows) ==
    \E skill_terms \in {IF query # << >> THEN _parse_search_query(query) ELSE << >>} :
    \E computed \in {[i \in DOMAIN rows |->
                        [id |-> rows[i],
                         email |-> candidates[rows[i]].email,
                         key_skills |-> key_skills_of(candidates[rows[i]]),
                         match_percentage |->
                             _calculate_match_percentage(rows[i], skill_terms)]]} :
        /\ retrieved' = rows
        /\ scored' = computed
        /\ response' = sort_by_match_percentage(
                           SelectSeq(computed,
                               LAMBDA r : passes_threshold(r.match_percentage)))

\* GET /api/search: the engine is built, search_candidates runs, and an exception
\* leaves it before .all() (the handler answers 500)
SearchCandidates ==
    /\ op = "none"
    /\ job_roles' \in _load_job_roles
    /\ \E query \in Queries, education_filter \in EducationFilters :
        \E base_query \in {_apply_filters(selected_ids(query), education_filter)} :
            /\ IF base_query.raised = "none"
               THEN \E rows \in RowOrders(base_query.ids) : search_candidates(query, rows)
               ELSE /\ retrieved' = << >>
                    /\ scored' = << >>
                    /\ response' = << >>
            /\ raised' = base_query.raised
            /\ op' = "search_candidates"
            /\ arg' = query
            /\ filters' = education_filter
            /\ UNCHANGED storeVars

(***************************************************************************)
(* The engine over the store                                               *)
(***************************************************************************)
\* an empty store and no request
Init ==
    /\ m_required = << >>
    /\ m_candidate = << >>
    /\ m_op = "none"
    /\ m_match = FALSE
    /\ m_normalized = << >>
    /\ skills = << >>
    /\ candidates = << >>
    /\ education = << >>
    /\ job_roles = << >>
    /\ op = "none"
    /\ arg = << >>
    /\ filters = << >>
    /\ raised = "none"
    /\ retrieved = << >>
    /\ scored = << >>
    /\ response = << >>
    /\ x_experiences = << >>
    /\ x_now = [year |-> 2024, month |-> 6]
    /\ x_date = << >>
    /\ x_op = "none"
    /\ x_totals = << >>
    /\ x_years = 0
    /\ x_parsed = [year |-> 0, month |-> 0]
    /\ sd_table = << >>
    /\ sd_recorded = {}
    /\ rs_table = << >>
    /\ rs_sequence = 0
    /\ sl_op = "none"
    /\ sl_args = << >>
    /\ sl_result = FALSE
    /\ sl_before = [sd |-> << >>, rs |-> << >>]
    /\ rs_added = {}
    /\ rs_listed = {}
    /\ m_raised = "none"
    /\ w_pc = [w \in Writers |-> "idle"]
    /\ w_call = [w \in Writers |-> << >>]
    /\ w_seen = [w \in Writers |-> 0]
    /\ w_result = [w \in Writers |-> FALSE]
    /\ sl_fault = "none"
    /\ sl_raised = "none"
    /\ db_objects = {}
    /\ db_schema = "none"
    /\ db_table = << >>
    /\ db_sequence = 0

\* the caller has taken the response of the last search
Return ==
    /\ op # "none"
    /\ op' = "none"
    /\ arg' = << >>
    /\ filters' = << >>
    /\ raised' = "none"
    /\ job_roles' = << >>
    /\ retrieved' = << >>
    /\ scored' = << >>
    /\ response' = << >>
    /\ UNCHANGED storeVars

Next ==
    \/ SaveCandidateData /\ UNCHANGED <<matchVars, expVars, shortVars, writerVars, faultVars, sharedVars>>
    \/ SearchByJobRole /\ UNCHANGED <<matchVars, expVars, shortVars, writerVars, faultVars, sharedVars>>
    \/ SearchCandidates /\ UNCHANGED <<matchVars, expVars, shortVars, writerVars, faultVars, sharedVars>>
    \/ Return /\ UNCHANGED <<matchVars, expVars, shortVars, writerVars, faultVars, sharedVars>>

Spec == Init /\ [][Next]_vars

(***************************************************************************)
(* The experience duration calculator (services/shortlisted_db.py)         *)
(***************************************************************************)
Digits == <<"0", "1", "2", "3", "4", "5", "6", "7", "8", "9">>

is_digit(c) == \E d \in DOMAIN Digits : Digits[d] = c

\* int() of one decimal digit
digit_value(c) == (CHOOSE d \in DOMAIN Digits : Digits[d] = c) - 1

\* int() of a run of decimal digits
RECURSIVE int_of_digits(_)
int_of_digits(ds) ==
    IF ds = << >> THEN 0
    ELSE 10 * int_of_digits(SubSeq(ds, 1, Len(ds) - 1)) + digit_value(ds[Len(ds)])

\* regex \s
RegexSpace == {" ", "\t", "\n"}

\* regex \w of a lowercased ASCII string
is_word_char(c) == is_digit(c) \/ c = "_" \/ \E k \in DOMAIN LowerAlpha : LowerAlpha[k] = c

\* the end of the run of digits that starts at position i (i - 1 when s[i] is no digit)
RECURSIVE digit_run_end(_, _)
digit_run_end(s, i) ==
    IF i <= Len(s) /\ is_digit(s[i]) THEN digit_run_end(s, i + 1) ELSE i - 1

\* the first position at or after i that holds no regex space
RECURSIVE skip_regex_space(_, _)
skip_regex_space(s, i) ==
    IF i <= Len(s) /\ s[i] \in RegexSpace THEN skip_regex_space(s, i + 1) ELSE i

\* s has the word w at position i
has_at(s, i, w) == i + Len(w) - 1 <= Len(s) /\ SubSeq(s, i, i + Len(w) - 1) = w

\* the unit of a duration pattern is at position j
unit_at(low, j, u1, u2) == has_at(low, j, u1) \/ has_at(low, j, u2)

\* (\d+)\s*(?:u1|u2) matches at position i
amount_matches(low, i, u1, u2) ==
    /\ is_digit(low[i])
    /\ unit_at(low, skip_regex_space(low, digit_run_end(low, i) + 1), u1, u2)

\* group 1 of the match at position at, as a number; found is FALSE for at = 0
amount_at(low, at) ==
    IF at = 0 THEN [found |-> FALSE, value |-> 0]
    ELSE [found |-> TRUE, value |-> int_of_digits(SubSeq(low, at, digit_run_end(low, at)))]

\* re.search(r'(\d+)\s*(?:u1|u2)s?', duration, re.IGNORECASE): group 1 of the leftmost
\* match as a number; found is FALSE when nothing matches
search_amount(duration, u1, u2) ==
    amount_at(str_lower(duration),
              first_where([i \in DOMAIN duration |->
                              amount_matches(str_lower(duration), i, u1, u2)]))

u_year  == <<"y", "e", "a", "r">>
u_yr    == <<"y", "r">>
u_month == <<"m", "o", "n", "t", "h">>
u_mo    == <<"m", "o">>

\* "years = 0 ... if year_match: years = int(year_match.group(1))"
value_or_zero(match) == IF match.found THEN match.value ELSE 0

\* the months an entry's duration text states: (years * 12) + months, 0 without a text
months_from_duration(duration) ==
    IF duration = << >> THEN 0
    ELSE (value_or_zero(search_amount(duration, u_year, u_yr)) * 12)
             + value_or_zero(search_amount(duration, u_month, u_mo))


\* MONTH_MAP, in the order of the dict literal
MONTH_MAP == <<
    [month_name |-> <<"j", "a", "n">>, month_num |-> 1],
    [month_name |-> <<"j", "a", "n", "u", "a", "r", "y">>, month_num |-> 1],
    [month_name |-> <<"f", "e", "b">>, month_num |-> 2],
    [month_name |-> <<"f", "e", "b", "r", "u", "a", "r", "y">>, month_num |-> 2],
    [month_name |-> <<"m", "a", "r">>, month_num |-> 3],
    [month_name |-> <<"m", "a", "r", "c", "h">>, month_num |-> 3],
    [month_name |-> <<"a", "p", "r">>, month_num |-> 4],
    [month_name |-> <<"a", "p", "r", "i", "l">>, month_num |-> 4],
    [month_name |-> <<"m", "a", "y">>, month_num |-> 5],
    [month_name |-> <<"j", "u", "n">>, month_num |-> 6],
    [month_name |-> <<"j", "u", "n", "e">>, month_num |-> 6],
    [month_name |-> <<"j", "u", "l">>, month_num |-> 7],
    [month_name |-> <<"j", "u", "l", "y">>, month_num |-> 7],
    [month_name |-> <<"a", "u", "g">>, month_num |-> 8],
    [month_name |-> <<"a", "u", "g", "u", "s", "t">>, month_num |-> 8],
    [month_name |-> <<"s", "e", "p">>, month_num |-> 9],
    [month_name |-> <<"s", "e", "p", "t">>, month_num |-> 9],
    [month_name |-> <<"s", "e", "p", "t", "e", "m", "b", "e", "r">>, month_num |-> 9],
    [month_name |-> <<"o", "c", "t">>, month_num |-> 10],
    [month_name |-> <<"o", "c", "t", "o", "b", "e", "r">>, month_num |-> 10],
    [month_name |-> <<"n", "o", "v">>, month_num |-> 11],
    [month_name |-> <<"n", "o", "v", "e", "m", "b", "e", "r">>, month_num |-> 11],
    [month_name |-> <<"d", "e", "c">>, month_num |-> 12],
    [month_name |-> <<"d", "e", "c", "e", "m", "b", "e", "r">>, month_num |-> 12] >>

w_present == <<"p", "r", "e", "s", "e", "n", "t">>
w_current == <<"c", "u", "r", "r", "e", "n", "t">>
w_now     == <<"n", "o", "w">>

\* int(year_match.group(1)) for the match at position at, 0 (year stays 0) for at = 0
year_at(date_str, at) ==
    IF at = 0 THEN 0 ELSE int_of_digits(SubSeq(date_str, at, at + 3))

\* re.search(r'(\d{4})', date_str): the number of the leftmost four digits, 0 when
\* there are none
search_year(date_str) ==
    year_at(date_str,
            first_where([i \in DOMAIN date_str |->
                            /\ i + 3 <= Len(date_str)
                            /\ \A k \in i..(i + 3) : is_digit(date_str[k])]))

\* month_num of the entry at position at of MONTH_MAP, 0 for at = 0
month_num_at(at) == IF at = 0 THEN 0 ELSE MONTH_MAP[at].month_num

\* "for month_name, month_num in self.MONTH_MAP.items()": the number of the first
\* entry whose name is in date_str, 0 when no name is
search_month_name(date_str) ==
    month_num_at(first_where([k \in DOMAIN MONTH_MAP |->
                                 str_in(MONTH_MAP[k].month_name, date_str)]))

DateSeparators == {"/", "-"}

\* \b holds before position i, which holds a digit
boundary_before(date_str, i) == i = 1 \/ ~is_word_char(date_str[i - 1])

\* two digits and a separator are at position i
two_digits_at(date_str, i) ==
    /\ i + 2 <= Len(date_str)
    /\ is_digit(date_str[i + 1])
    /\ date_str[i + 2] \in DateSeparators

\* one digit and a separator are at position i
one_digit_at(date_str, i) ==
    i + 1 <= Len(date_str) /\ date_str[i + 1] \in DateSeparators

\* group 1 of the match at position at, as a number; found is FALSE for at = 0
month_number_at(date_str, at) ==
    IF at = 0 THEN [found |-> FALSE, value |-> 0]
    ELSE [found |-> TRUE,
          value |-> IF two_digits_at(date_str, at)
                    THEN int_of_digits(SubSeq(date_str, at, at + 1))
                    ELSE digit_value(date_str[at])]

\* re.search(r'\b(\d{1,2})[/-]', date_str): group 1 of the leftmost match as a number;
\* at a word boundary two digits are tried before one
search_month_number(date_str) ==
    month_number_at(date_str,
        first_where([i \in DOMAIN date_str |->
                        /\ is_digit(date_str[i])
                        /\ boundary_before(date_str, i)
                        /\ two_digits_at(date_str, i) \/ one_digit_at(date_str, i)]))

\* "month = 1", then the month name found, then the number found when it is in 1..12
month_of(named, month_num_match) ==
    IF /\ month_num_match.found
       /\ 1 <= month_num_match.value
       /\ month_num_match.value <= 12
    THEN month_num_match.value
    ELSE IF named # 0 THEN named ELSE 1

\* parse_lowered without the present / current / now branch
parse_lowered_no_sentinel(date_str, now) ==
    [year  |-> search_year(date_str),
     month |-> month_of(search_month_name(date_str), search_month_number(date_str))]

\* _parse_date after "date_str = date_str.lower().strip()"
parse_lowered(date_str, now) ==
    IF \E word \in {w_present, w_current, w_now} : str_in(word, date_str)
    THEN now
    ELSE [year  |-> search_year(date_str),
          month |-> month_of(search_month_name(date_str), search_month_number(date_str))]

\* ShortlistedDatabase._parse_date; now = [year, month] is what datetime.now() gives
_parse_date(date_arg, now) ==
    IF date_arg = << >> THEN [year |-> 0, month |-> 0]
    ELSE parse_lowered(str_strip(str_lower(date_arg)), now)

\* months_diff added whatever its sign
any_sign(months_diff) == months_diff

\* "if months_diff > 0: total_months += months_diff"
if_positive(months_diff) == IF months_diff > 0 THEN months_diff ELSE 0

\* the months from start to end when both have a year, else 0
months_between(start, end) ==
    IF start.year > 0 /\ end.year > 0
    THEN if_positive((end.year - start.year) * 12 + (end.month - start.month))
    ELSE 0

\* the else branch of "if months_from_duration > 0": the months the dates give
months_from_dates(exp, now) ==
    IF exp.start_date = << >> THEN 0
    ELSE months_between(_parse_date(exp.start_date, now),
                        IF exp.end_date # << >> THEN _parse_date(exp.end_date, now)
                        ELSE now)

\* "if months_from_duration > 0: total_months += months_from_duration, else: ..."
stated_or_dated(stated, exp, now) ==
    IF stated > 0 THEN stated ELSE months_from_dates(exp, now)

\* one turn of "for exp in experiences": what the entry adds to total_months
entry_months(exp, now) == stated_or_dated(months_from_duration(exp.duration), exp, now)

\* the last entry of a sequence
last_of(values) == values[Len(values)]

\* "total_months += ...": the values of total_months so far and the next one
add_months(totals, months) == Append(totals, last_of(totals) + months)

\* the values total_months takes: after 0, 1, 2, ... entries
RECURSIVE total_months_after(_, _)
total_months_after(experiences, now) ==
    IF experiences = << >> THEN <<0>>
    ELSE add_months(total_months_after(SubSeq(experiences, 1, Len(experiences) - 1), now),
                    entry_months(experiences[Len(experiences)], now))

\* total_months / 12 cut after the first decimal
round_1_down(total_months) == (10 * total_months) \div 12

\* the tenth next to a quotient q with remainder r of 12: the nearest, and the even one
\* when the remainder is half of 12
nearest_tenth(q, r) ==
    IF r < 6 THEN q
    ELSE IF r > 6 THEN q + 1
    ELSE IF q % 2 = 0 THEN q ELSE q + 1

\* round(total_months / 12, 1) in tenths of a year: the nearest tenth, and the even
\* one when total_months / 12 lies halfway (such a quotient is a multiple of 0.25,
\* which a float holds exactly)
round_1(total_months) ==
    nearest_tenth((10 * total_months) \div 12, (10 * total_months) % 12)

\* "round(total_months / 12, 1) if total_months > 0 else 0.0", in tenths of a year
years_of(total_months) == IF total_months > 0 THEN round_1(total_months) ELSE 0

\* ShortlistedDatabase._calculate_work_experience_years, in tenths of a year
_calculate_work_experience_years(experiences, now) ==
    years_of(last_of(total_months_after(experiences, now)))


\* the texts experience entries carry
t_2_years_3_months == <<"2", " ", "y", "e", "a", "r", "s", " ", "3", " ", "m", "o", "n", "t", "h", "s">>
t_0_years          == <<"0", " ", "y", "e", "a", "r", "s">>
t_6_mo             == <<"6", " ", "m", "o">>
t_1_YR             == <<"1", " ", "Y", "R">>
t_18_Months        == <<"1", "8", " ", "M", "o", "n", "t", "h", "s">>
t_two_years        == <<"t", "w", "o", " ", "y", "e", "a", "r", "s">>
t_Jan_2020         == <<"J", "a", "n", " ", "2", "0", "2", "0">>
t_present          == <<"p", "r", "e", "s", "e", "n", "t">>
t_Current          == <<"C", "u", "r", "r", "e", "n", "t">>
t_Dec_2019         == <<"D", "e", "c", " ", "2", "0", "1", "9">>
t_03_2021          == <<"0", "3", "/", "2", "0", "2", "1">>
t_2021_06_15       == <<"2", "0", "2", "1", "-", "0", "6", "-", "1", "5">>
t_5_Jan_2020       == <<"5", "-", "J", "a", "n", "-", "2", "0", "2", "0">>
t_15_Mar_2021      == <<"1", "5", "-", "M", "a", "r", "-", "2", "0", "2", "1">>
t_Sept_2022        == <<"S", "e", "p", "t", " ", "2", "0", "2", "2">>
t_June             == <<"J", "u", "n", "e">>
t_2019             == <<"2", "0", "1", "9">>
t_13_2020          == <<"1", "3", "/", "2", "0", "2", "0">>
t_Jun_2024         == <<"J", "u", "n", " ", "2", "0", "2", "4">>
t_Until_now        == <<" ", "U", "n", "t", "i", "l", " ", "N", "o", "w", " ">>

Durations ==
    {s_empty, t_2_years_3_months, t_0_years, t_6_mo, t_1_YR, t_18_Months, t_two_years}

StartDates ==
    {s_empty, t_Jan_2020, t_5_Jan_2020, t_03_2021, t_June, t_present, t_2021_06_15}

EndDates ==
    {s_empty, t_present, t_Dec_2019, t_Jun_2024, t_Current, t_Sept_2022, t_June}

DateTexts ==
    StartDates \cup EndDates \cup {t_15_Mar_2021, t_2019, t_13_2020, t_Until_now}

Experience(duration, start_date, end_date) ==
    [duration |-> duration, start_date |-> start_date, end_date |-> end_date]

ExperienceEntries ==
    {Experience(d, s, e) : d \in Durations, s \in StartDates, e \in EndDates}

\* the entries that are put together in lists of two
PairedEntries ==
    {Experience(t_2_years_3_months, s_empty, s_empty),
     Experience(t_6_mo, s_empty, s_empty),
     Experience(t_two_years, s_empty, s_empty),
     Experience(s_empty, t_Jan_2020, t_present),
     Experience(s_empty, t_Jan_2020, t_Dec_2019)}

ExperienceLists ==
    {<< >>} \cup {<<a>> : a \in ExperienceEntries}
            \cup {<<a, b>> : a \in PairedEntries, b \in PairedEntries}

\* what datetime.now() gives: June 2024, January 2021
Nows == {[year |-> 2024, month |-> 6], [year |-> 2021, month |-> 1]}

\* the arguments of one call of each function, and the clock
ExpInit ==
    /\ x_experiences \in ExperienceLists
    /\ x_now \in Nows
    /\ x_date \in DateTexts
    /\ x_op = "none"
    /\ x_totals = << >>
    /\ x_years = 0
    /\ x_parsed = [year |-> 0, month |-> 0]
    /\ sd_table = << >>
    /\ sd_recorded = {}
    /\ rs_table = << >>
    /\ rs_sequence = 0
    /\ sl_op = "none"
    /\ sl_args = << >>
    /\ sl_result = FALSE
    /\ sl_before = [sd |-> << >>, rs |-> << >>]
    /\ m_required = << >>
    /\ m_candidate = << >>
    /\ m_op = "none"
    /\ m_match = FALSE
    /\ m_normalized = << >>
    /\ skills = << >>
    /\ candidates = << >>
    /\ education = << >>
    /\ job_roles = << >>
    /\ op = "none"
    /\ arg = << >>
    /\ filters = << >>
    /\ raised = "none"
    /\ retrieved = << >>
    /\ scored = << >>
    /\ response = << >>
    /\ rs_added = {}
    /\ rs_listed = {}
    /\ m_raised = "none"
    /\ w_pc = [w \in Writers |-> "idle"]
    /\ w_call = [w \in Writers |-> << >>]
    /\ w_seen = [w \in Writers |-> 0]
    /\ w_result = [w \in Writers |-> FALSE]
    /\ sl_fault = "none"
    /\ sl_raised = "none"
    /\ db_objects = {}
    /\ db_schema = "none"
    /\ db_table = << >>
    /\ db_sequence = 0

CallCalculateWorkExperienceYears ==
    /\ x_op = "none"
    /\ x_op' = "_calculate_work_experience_years"
    /\ x_totals' = total_months_after(x_experiences, x_now)
    /\ x_years' = _calculate_work_experience_years(x_experiences, x_now)
    /\ UNCHANGED <<x_experiences, x_now, x_date, x_parsed>>

CallParseDate ==
    /\ x_op = "none"
    /\ x_op' = "_parse_date"
    /\ x_parsed' = _parse_date(x_date, x_now)
    /\ UNCHANGED <<x_experiences, x_now, x_date, x_totals, x_years>>

ExpNext ==
    \/ CallCalculateWorkExperienceYears /\ UNCHANGED <<matchVars, storeVars, callVars, shortVars, writerVars, faultVars, sharedVars>>
    \/ CallParseDate /\ UNCHANGED <<matchVars, storeVars, callVars, shortVars, writerVars, faultVars, sharedVars>>

SpecExperience == ExpInit /\ [][ExpNext]_vars

(***************************************************************************)
(* The shortlist stores: ShortlistedDatabase (services/shortlisted_db.py)  *)
(* and ShortlistedResumesDB (database/shortlist_sqlite.py), each on a      *)
(* database file of its own (db_path)                                      *)
(***************************************************************************)
\* the characters of the skill texts in code point order (str comparison)
CodePointOrder ==
    <<" ", "+", ",", "-", ".", "/">> \o Digits \o <<"_">> \o LowerAlpha

code_point(c) == CHOOSE k \in DOMAIN CodePointOrder : CodePointOrder[k] = c

\* a < b of two str
RECURSIVE str_less(_, _)
str_less(a, b) ==
    IF b = << >> THEN FALSE
    ELSE IF a = << >> THEN TRUE
    ELSE IF Head(a) # Head(b) THEN code_point(Head(a)) < code_point(Head(b))
    ELSE str_less(Tail(a), Tail(b))

\* the least of a non-empty set of str
least_of(strs) == CHOOSE x \in strs : \A y \in strs : x = y \/ str_less(x, y)

\* first, then the others sorted
RECURSIVE sorted(_)
first_then_rest(first, strs) == <<first>> \o sorted(strs \ {first})

\* sorted(a set of str)
sorted(strs) == IF strs = {} THEN << >> ELSE first_then_rest(least_of(strs), strs)

\* ", ".join(a list of str)
RECURSIVE join_comma_space(_)
join_comma_space(strs) ==
    IF strs = << >> THEN << >>
    ELSE IF Len(strs) = 1 THEN strs[1]
    ELSE strs[1] \o <<",", " ">> \o join_comma_space(Tail(strs))

\* before, and entry after it when it is not in before
append_new(before, entry) ==
    IF list_contains(before, entry) THEN before ELSE Append(before, entry)

\* the entries of a list in the order they first come
RECURSIVE first_occurrences(_)
first_occurrences(strs) ==
    IF strs = << >> THEN << >>
    ELSE append_new(first_occurrences(SubSeq(strs, 1, Len(strs) - 1)), strs[Len(strs)])

\* "[s.lower().strip() for s in skills if s and s.strip()]"
lowered_stripped(skill_list) ==
    [i \in DOMAIN SelectSeq(skill_list, LAMBDA skill : str_strip(skill) # << >>) |->
        str_lower(str_strip(
            SelectSeq(skill_list, LAMBDA skill : str_strip(skill) # << >>)[i]))]

\* the entries of a list as a set
set_of(strs) == {strs[i] : i \in DOMAIN strs}

\* _normalize_skills without sorted()
_normalize_skills_unsorted(skill_list) ==
    join_comma_space(first_occurrences(lowered_stripped(skill_list)))

\* ShortlistedDatabase._normalize_skills
_normalize_skills(skill_list) ==
    join_comma_space(sorted(set_of(lowered_stripped(skill_list))))

\* INSERT OR IGNORE without the UNIQUE constraint
conflicting_row_never(table, candidate_name, skills_str) == 0

\* INSERT OR IGNORE under UNIQUE(candidate_name, skills): the position of the row the
\* new one conflicts with, 0 when there is none
conflicting_row(table, candidate_name, skills_str) ==
    first_where([i \in DOMAIN table |->
                    /\ table[i].candidate_name = candidate_name
                    /\ table[i].skills = skills_str])

\* "INSERT OR IGNORE INTO shortlisted_candidates (candidate_name,
\* work_experience_years, skills) VALUES (?, ?, ?)"
insert_or_ignore(table, candidate_name, work_experience_years, skills_str) ==
    IF conflicting_row(table, candidate_name, skills_str) # 0 THEN table
    ELSE Append(table, [candidate_name |-> candidate_name,
                        work_experience_years |-> work_experience_years,
                        skills |-> skills_str])

\* store_shortlisted_candidate after candidate_name.strip()
store_normalized(table, candidate_name_normalized, experiences, skill_list, now) ==
    IF candidate_name_normalized = << >>
    THEN [result |-> FALSE, table |-> table]
    ELSE [result |-> TRUE,
          table  |-> insert_or_ignore(table, candidate_name_normalized,
                         _calculate_work_experience_years(experiences, now),
                         _normalize_skills(skill_list))]

\* ShortlistedDatabase.store_shortlisted_candidate on table shortlisted_candidates:
\* [result, table]
store_shortlisted_candidate(table, candidate_name, experiences, skill_list, now) ==
    store_normalized(table, str_strip(candidate_name), experiences, skill_list, now)

\* "stored_count += 1" for every row the call has added
count_rows_added(before, stored) ==
    [result |-> before.result + Len(stored.table) - Len(before.table),
     table  |-> stored.table]

\* "if self.store_shortlisted_candidate(...): stored_count += 1"
count_stored(before, stored) ==
    [result |-> IF stored.result THEN before.result + 1 ELSE before.result,
     table  |-> stored.table]

\* one turn of "for candidate in candidates", before = [result, table] of the turns
\* before it
store_next(before, candidate, now) ==
    IF candidate.name = << >> THEN before
    ELSE count_stored(before,
                      store_shortlisted_candidate(before.table, candidate.name,
                          candidate.experiences, candidate.skills, now))

\* ShortlistedDatabase.store_multiple_candidates: [result (stored_count), table]
RECURSIVE store_multiple_candidates(_, _, _)
store_multiple_candidates(table, batch, now) ==
    IF batch = << >> THEN [result |-> 0, table |-> table]
    ELSE store_next(store_multiple_candidates(table, SubSeq(batch, 1, Len(batch) - 1), now),
                    batch[Len(batch)], now)

\* the "message" of the results: which of the texts it is
msg_below_threshold == "Match percentage is below 70% threshold"
msg_already         == "Candidate already in shortlist"
msg_added           == "Successfully added to shortlist"
msg_not_found       == "Record not found"
msg_removed         == "Removed from shortlist"

\* "SELECT id FROM shortlisted_candidates WHERE candidate_id = ?" gave the row at
\* position existing (0: none): the row's id, or the INSERT and cursor.lastrowid
add_or_existing(table, sequence, existing, candidate_id, candidate_name, skill_list, work_experience) ==
    IF existing # 0
    THEN [result |-> [success |-> TRUE, message |-> msg_already,
                      added_to_sqlite |-> FALSE, id |-> table[existing].id],
          table |-> table, sequence |-> sequence]
    ELSE [result |-> [success |-> TRUE, message |-> msg_added,
                      added_to_sqlite |-> TRUE, id |-> sequence + 1],
          table |-> Append(table, [id |-> sequence + 1,
                                   candidate_id |-> candidate_id,
                                   candidate_name |-> candidate_name,
                                   skills |-> skill_list,
                                   work_experience |-> work_experience]),
          sequence |-> sequence + 1]

\* "if match_percentage < 70" of add_shortlisted_resume
ShortlistThreshold == 70

\* a test that lets every match_percentage pass
below_threshold_never(match_percentage) == FALSE

\* "if match_percentage < 70"
below_threshold(match_percentage) == match_percentage < ShortlistThreshold

\* ShortlistedResumesDB.add_shortlisted_resume on its table shortlisted_candidates
\* (sequence = the AUTOINCREMENT counter): [result, table, sequence]; the result of
\* the first return has no key "id" (0 here)
add_shortlisted_resume(table, sequence, candidate_id, candidate_name, skill_list, work_experience, match_percentage) ==
    IF below_threshold(match_percentage)
    THEN [result |-> [success |-> FALSE, message |-> msg_below_threshold,
                      added_to_sqlite |-> FALSE, id |-> 0],
          table |-> table, sequence |-> sequence]
    ELSE add_or_existing(table, sequence,
                         first_where([i \in DOMAIN table |->
                                         table[i].candidate_id = candidate_id]),
                         candidate_id, candidate_name, skill_list, work_experience)

\* a DELETE that empties the table
delete_row_all(table, at) == << >>

\* "DELETE FROM shortlisted_candidates WHERE id = ?" for the row at position at
delete_row(table, at) == SubSeq(table, 1, at - 1) \o SubSeq(table, at + 1, Len(table))

\* "SELECT candidate_name ... WHERE id = ?" gave the row at position at (0: none)
remove_found(table, at) ==
    IF at = 0
    THEN [result |-> [success |-> FALSE, message |-> msg_not_found], table |-> table]
    ELSE [result |-> [success |-> TRUE, message |-> msg_removed],
          table |-> delete_row(table, at)]

\* ShortlistedResumesDB.remove_shortlisted: [result, table]
remove_shortlisted(table, record_id) ==
    remove_found(table, first_where([i \in DOMAIN table |-> table[i].id = record_id]))

n_Alice        == <<"A", "l", "i", "c", "e">>
n_Alice_padded == <<" ", "A", "l", "i", "c", "e", " ">>
n_Bob          == <<"B", "o", "b">>
s_sql_padded   == <<" ", "s", "q", "l", " ">>
p_Parser       == <<"P", "a", "r", "s", "e", "r">>

\* skill lists: one, the same set in another order, case and padding with a repeated
\* and two blank entries, a smaller set, none
l_Python_SQL == <<s_Python, s_SQL>>
l_sql_python == <<s_sql_padded, s_python, s_Python, s_blank, s_empty>>
l_Python     == <<s_Python>>

two_years_3_months == Experience(t_2_years_3_months, s_empty, s_empty)

ShortlistEntry(name, experiences, skill_list, projects) ==
    [name |-> name, experiences |-> experiences, skills |-> skill_list,
     projects |-> projects]

\* the entries callers record; store_shortlisted_candidate takes no projects and
\* store_multiple_candidates reads the keys name, experiences and skills only
ShortlistEntries ==
    {ShortlistEntry(n_Alice, <<two_years_3_months, two_years_3_months>>, l_Python_SQL, << >>),
     ShortlistEntry(n_Alice, << >>, l_Python_SQL, <<p_Parser>>),
     ShortlistEntry(n_Alice_padded, << >>, l_sql_python, << >>),
     ShortlistEntry(n_Alice, << >>, l_Python, << >>),
     ShortlistEntry(n_Alice, << >>, << >>, << >>),
     ShortlistEntry(n_Bob, << >>, l_Python_SQL, << >>),
     ShortlistEntry(s_blank, << >>, l_Python_SQL, << >>),
     ShortlistEntry(s_empty, << >>, l_Python_SQL, << >>)}

\* the entries that are put together in batches of two
PairedShortlistEntries ==
    {ShortlistEntry(n_Alice, <<two_years_3_months, two_years_3_months>>, l_Python_SQL, << >>),
     ShortlistEntry(n_Alice_padded, << >>, l_sql_python, << >>),
     ShortlistEntry(n_Bob, << >>, l_Python_SQL, << >>),
     ShortlistEntry(s_blank, << >>, l_Python_SQL, << >>),
     ShortlistEntry(s_empty, << >>, l_Python_SQL, << >>)}

Batches ==
    {<< >>} \cup {<<a>> : a \in ShortlistEntries}
            \cup {<<a, b>> : a \in PairedShortlistEntries, b \in PairedShortlistEntries}

\* the rows the table of ShortlistedResumesDB gets in a run
MaxSequence == 3

\* what the calls that inserted a row were given: the id returned with
\* added_to_sqlite = True, the call's candidate_id and its match_percentage
added_after(added, call, result) ==
    IF result.added_to_sqlite
    THEN added \cup {[id |-> result.id, candidate_id |-> call.candidate_id,
                       match_percentage |-> call.match_percentage]}
    ELSE added

\* the record ids the callers hold after an add: a successful add for a candidate_id
\* gives the id of its record
listed_after_add(listed, call, result) ==
    IF result.success
    THEN {e \in listed : e.candidate_id # call.candidate_id}
             \cup {[candidate_id |-> call.candidate_id, id |-> result.id]}
    ELSE listed

\* the record ids the callers hold after a remove: a successful remove of record_id
\* ends that record
listed_after_remove(listed, record_id, result) ==
    IF result.success THEN {e \in listed : e.id # record_id} ELSE listed

\* the calls of add_shortlisted_resume: two candidates, below, at and above 70
ResumeCalls ==
    {[candidate_id |-> c, candidate_name |-> IF c = 1 THEN n_Alice ELSE n_Bob,
      skills |-> l_Python_SQL, work_experience |-> << >>, match_percentage |-> p] :
        c \in {1, 2}, p \in {69, 70, 100}}

\* the (name, skills, projects) of the entries of a batch that have a name
recorded_by(batch) ==
    {[name |-> str_strip(batch[i].name),
      skills |-> _normalize_skills(batch[i].skills),
      projects |-> _normalize_skills(batch[i].projects)] :
        i \in {k \in DOMAIN batch : str_strip(batch[k].name) # << >>}}

StoreShortlistedCandidate ==
    /\ sl_op = "none"
    /\ \E entry \in ShortlistEntries, now \in Nows :
        \E stored \in {store_shortlisted_candidate(sd_table, entry.name,
                           entry.experiences, entry.skills, now)} :
            /\ sd_table' = stored.table
            /\ sl_result' = stored.result
            /\ sl_args' = entry
            /\ sd_recorded' = sd_recorded \cup recorded_by(<<entry>>)
    /\ sl_op' = "store_shortlisted_candidate"
    /\ sl_before' = [sd |-> sd_table, rs |-> rs_table]
    /\ UNCHANGED <<rs_table, rs_sequence, rs_added, rs_listed>>

StoreMultipleCandidates ==
    /\ sl_op = "none"
    /\ \E batch \in Batches, now \in Nows :
        \E stored \in {store_multiple_candidates(sd_table, batch, now)} :
            /\ sd_table' = stored.table
            /\ sl_result' = stored.result
            /\ sl_args' = batch
            /\ sd_recorded' = sd_recorded \cup recorded_by(batch)
    /\ sl_op' = "store_multiple_candidates"
    /\ sl_before' = [sd |-> sd_table, rs |-> rs_table]
    /\ UNCHANGED <<rs_table, rs_sequence, rs_added, rs_listed>>

\* ShortlistedDatabase.clear_all (DELETE /api/shortlisted)
ClearAll ==
    /\ sl_op = "none"
    /\ sd_table' = << >>
    /\ sd_recorded' = {}
    /\ sl_op' = "clear_all"
    /\ sl_args' = << >>
    /\ sl_result' = TRUE
    /\ sl_before' = [sd |-> sd_table, rs |-> rs_table]
    /\ UNCHANGED <<rs_table, rs_sequence, rs_added, rs_listed>>

AddShortlistedResume ==
    /\ sl_op = "none"
    /\ \E call \in ResumeCalls :
        \E added \in {add_shortlisted_resume(rs_table, rs_sequence, call.candidate_id,
                          call.candidate_name, call.skills, call.work_experience,
                          call.match_percentage)} :
            /\ added.sequence <= MaxSequence
            /\ rs_table' = added.table
            /\ rs_sequence' = added.sequence
            /\ sl_result' = added.result
            /\ sl_args' = call
            /\ rs_added' = added_after(rs_added, call, added.result)
            /\ rs_listed' = listed_after_add(rs_listed, call, added.result)
    /\ sl_op' = "add_shortlisted_resume"
    /\ sl_before' = [sd |-> sd_table, rs |-> rs_table]
    /\ UNCHANGED <<sd_table, sd_recorded>>

\* the record ids callers pass to remove_shortlisted
RecordIds == 1..MaxSequence

RemoveShortlisted ==
    /\ sl_op = "none"
    /\ \E record_id \in RecordIds :
        \E removed \in {remove_shortlisted(rs_table, record_id)} :
            /\ rs_table' = removed.table
            /\ sl_result' = removed.result
            /\ sl_args' = record_id
            /\ rs_listed' = listed_after_remove(rs_listed, record_id, removed.result)
    /\ sl_op' = "remove_shortlisted"
    /\ sl_before' = [sd |-> sd_table, rs |-> rs_table]
    /\ UNCHANGED <<sd_table, sd_recorded, rs_sequence, rs_added>>

\* the caller has taken the result
ShortlistReturn ==
    /\ sl_op # "none"
    /\ sl_op' = "none"
    /\ sl_args' = << >>
    /\ sl_result' = FALSE
    /\ sl_before' = [sd |-> << >>, rs |-> << >>]
    /\ UNCHANGED <<sd_table, sd_recorded, rs_table, rs_sequence, rs_added, rs_listed>>

\* two empty tables and no call
ShortInit ==
    /\ sd_table = << >>
    /\ sd_recorded = {}
    /\ rs_table = << >>
    /\ rs_sequence = 0
    /\ sl_op = "none"
    /\ sl_args = << >>
    /\ sl_result = FALSE
    /\ sl_before = [sd |-> << >>, rs |-> << >>]
    /\ x_experiences = << >>
    /\ x_now = [year |-> 2024, month |-> 6]
    /\ x_date = << >>
    /\ x_op = "none"
    /\ x_totals = << >>
    /\ x_years = 0
    /\ x_parsed = [year |-> 0, month |-> 0]
    /\ m_required = << >>
    /\ m_candidate = << >>
    /\ m_op = "none"
    /\ m_match = FALSE
    /\ m_normalized = << >>
    /\ skills = << >>
    /\ candidates = << >>
    /\ education = << >>
    /\ job_roles = << >>
    /\ op = "none"
    /\ arg = << >>
    /\ filters = << >>
    /\ raised = "none"
    /\ retrieved = << >>
    /\ scored = << >>
    /\ response = << >>
    /\ rs_added = {}
    /\ rs_listed = {}
    /\ m_raised = "none"
    /\ w_pc = [w \in Writers |-> "idle"]
    /\ w_call = [w \in Writers |-> << >>]
    /\ w_seen = [w \in Writers |-> 0]
    /\ w_result = [w \in Writers |-> FALSE]
    /\ sl_fault = "none"
    /\ sl_raised = "none"
    /\ db_objects = {}
    /\ db_schema = "none"
    /\ db_table = << >>
    /\ db_sequence = 0

ShortNext ==
    \/ StoreShortlistedCandidate /\ UNCHANGED <<matchVars, storeVars, callVars, expVars, writerVars, faultVars, sharedVars>>
    \/ StoreMultipleCandidates /\ UNCHANGED <<matchVars, storeVars, callVars, expVars, writerVars, faultVars, sharedVars>>
    \/ ClearAll /\ UNCHANGED <<matchVars, storeVars, callVars, expVars, writerVars, faultVars, sharedVars>>
    \/ AddShortlistedResume /\ UNCHANGED <<matchVars, storeVars, callVars, expVars, writerVars, faultVars, sharedVars>>
    \/ ShortlistReturn /\ UNCHANGED <<matchVars, storeVars, callVars, expVars, writerVars, faultVars, sharedVars>>

SpecShortlist == ShortInit /\ [][ShortNext]_vars

\* ShortlistedResumesDB alone: adds and removes on its table
ResumesNext ==
    \/ AddShortlistedResume /\ UNCHANGED <<matchVars, storeVars, callVars, expVars, writerVars, faultVars, sharedVars>>
    \/ RemoveShortlisted /\ UNCHANGED <<matchVars, storeVars, callVars, expVars, writerVars, faultVars, sharedVars>>
    \/ ShortlistReturn /\ UNCHANGED <<matchVars, storeVars, callVars, expVars, writerVars, faultVars, sharedVars>>

SpecResumes == ShortInit /\ [][ResumesNext]_vars

(***************************************************************************)
(* Concurrent callers of the shortlist stores. Each statement of a call is *)
(* one step; SQLite runs the write transactions of the connections one     *)
(* after the other (a connection that finds the file locked waits), so an  *)
(* INSERT with its commit is one step.                                     *)
(***************************************************************************)
msg_error == "Error adding to shortlist"

\* a column candidate_id without UNIQUE
unique_candidate_id_none(table, candidate_id) == 0

\* "candidate_id INTEGER NOT NULL UNIQUE": the position of the row a new row with
\* this candidate_id conflicts with, 0 when there is none
unique_candidate_id(table, candidate_id) ==
    first_where([i \in DOMAIN table |-> table[i].candidate_id = candidate_id])

\* "SELECT id FROM shortlisted_candidates WHERE candidate_id = ?" and fetchone():
\* the position of the row, 0 for None
select_existing(table, candidate_id) ==
    first_where([i \in DOMAIN table |-> table[i].candidate_id = candidate_id])

\* "if existing: return {...}"
result_existing(table, existing) ==
    [success |-> TRUE, message |-> msg_already, added_to_sqlite |-> FALSE,
     id |-> table[existing].id]

\* the INSERT of add_shortlisted_resume with its commit: the row and
\* cursor.lastrowid, or sqlite3.IntegrityError from the UNIQUE column, which the
\* except branch turns into a rollback and a result with success = False
insert_resume(table, sequence, call) ==
    IF unique_candidate_id(table, call.candidate_id) # 0
    THEN [result |-> [success |-> FALSE, message |-> msg_error,
                      added_to_sqlite |-> FALSE, id |-> 0],
          table |-> table, sequence |-> sequence]
    ELSE [result |-> [success |-> TRUE, message |-> msg_added,
                      added_to_sqlite |-> TRUE, id |-> sequence + 1],
          table |-> Append(table, [id |-> sequence + 1,
                                   candidate_id |-> call.candidate_id,
                                   candidate_name |-> call.candidate_name,
                                   skills |-> call.skills,
                                   work_experience |-> call.work_experience]),
          sequence |-> sequence + 1]

\* the entries the concurrent callers store: two spellings of one (name, skills), a
\* second name, a blank name
WriterEntries ==
    {ShortlistEntry(n_Alice, << >>, l_Python_SQL, << >>),
     ShortlistEntry(n_Alice_padded, << >>, l_sql_python, << >>),
     ShortlistEntry(n_Bob, << >>, l_Python_SQL, << >>),
     ShortlistEntry(s_blank, << >>, l_Python_SQL, << >>)}

\* add_shortlisted_resume up to "if match_percentage < 70"
BeginAdd(w) ==
    /\ w_pc[w] = "idle"
    /\ \E call \in ResumeCalls :
        /\ w_call' = [w_call EXCEPT ![w] = [fn |-> "add_shortlisted_resume", args |-> call]]
        /\ IF below_threshold(call.match_percentage)
           THEN /\ w_pc' = [w_pc EXCEPT ![w] = "done"]
                /\ w_result' = [w_result EXCEPT ![w] =
                                   [success |-> FALSE, message |-> msg_below_threshold,
                                    added_to_sqlite |-> FALSE, id |-> 0]]
           ELSE /\ w_pc' = [w_pc EXCEPT ![w] = "select"]
                /\ UNCHANGED w_result
    /\ UNCHANGED <<w_seen, sd_table, rs_table, rs_sequence>>

\* add_shortlisted_resume: the SELECT and "if existing"
SelectExisting(w) ==
    /\ w_pc[w] = "select"
    /\ \E existing \in {select_existing(rs_table, w_call[w].args.candidate_id)} :
        /\ w_seen' = [w_seen EXCEPT ![w] = existing]
        /\ IF existing # 0
           THEN /\ w_pc' = [w_pc EXCEPT ![w] = "done"]
                /\ w_result' = [w_result EXCEPT ![w] = result_existing(rs_table, existing)]
           ELSE /\ w_pc' = [w_pc EXCEPT ![w] = "insert"]
                /\ UNCHANGED w_result
    /\ UNCHANGED <<w_call, sd_table, rs_table, rs_sequence>>

\* add_shortlisted_resume: the INSERT, the commit and the return, or the except branch
InsertResume(w) ==
    /\ w_pc[w] = "insert"
    /\ \E inserted \in {insert_resume(rs_table, rs_sequence, w_call[w].args)} :
        /\ rs_table' = inserted.table
        /\ rs_sequence' = inserted.sequence
        /\ w_result' = [w_result EXCEPT ![w] = inserted.result]
    /\ w_pc' = [w_pc EXCEPT ![w] = "done"]
    /\ UNCHANGED <<w_call, w_seen, sd_table>>

\* store_shortlisted_candidate up to "if not candidate_name_normalized"
BeginStore(w) ==
    /\ w_pc[w] = "idle"
    /\ \E entry \in WriterEntries :
        /\ w_call' = [w_call EXCEPT ![w] =
                         [fn |-> "store_shortlisted_candidate",
                          args |-> [candidate_name_normalized |-> str_strip(entry.name),
                                    work_experience_years |->
                                        _calculate_work_experience_years(
                                            entry.experiences, x_now),
                                    skills_str |-> _normalize_skills(entry.skills)]]]
        /\ IF str_strip(entry.name) = << >>
           THEN /\ w_pc' = [w_pc EXCEPT ![w] = "done"]
                /\ w_result' = [w_result EXCEPT ![w] = FALSE]
           ELSE /\ w_pc' = [w_pc EXCEPT ![w] = "insert_or_ignore"]
                /\ UNCHANGED w_result
    /\ UNCHANGED <<w_seen, sd_table, rs_table, rs_sequence>>

\* store_shortlisted_candidate: INSERT OR IGNORE, the commit and "return True"
InsertOrIgnore(w) ==
    /\ w_pc[w] = "insert_or_ignore"
    /\ sd_table' = insert_or_ignore(sd_table, w_call[w].args.candidate_name_normalized,
                                    w_call[w].args.work_experience_years,
                                    w_call[w].args.skills_str)
    /\ w_result' = [w_result EXCEPT ![w] = TRUE]
    /\ w_pc' = [w_pc EXCEPT ![w] = "done"]
    /\ UNCHANGED <<w_call, w_seen, rs_table, rs_sequence>>

\* the caller has taken the result
WriterReturn(w) ==
    /\ w_pc[w] = "done"
    /\ w_pc' = [w_pc EXCEPT ![w] = "idle"]
    /\ w_call' = [w_call EXCEPT ![w] = << >>]
    /\ w_seen' = [w_seen EXCEPT ![w] = 0]
    /\ w_result' = [w_result EXCEPT ![w] = FALSE]
    /\ UNCHANGED <<sd_table, rs_table, rs_sequence>>

\* what no writer step changes
writerFrame ==
    <<matchVars, storeVars, callVars, expVars, faultVars, sharedVars, sd_recorded, sl_op,
      sl_args, sl_result, sl_before, rs_added, rs_listed>>

WritersNext ==
    \/ \E w \in Writers : BeginAdd(w) /\ UNCHANGED writerFrame
    \/ \E w \in Writers : SelectExisting(w) /\ UNCHANGED writerFrame
    \/ \E w \in Writers : InsertResume(w) /\ UNCHANGED writerFrame
    \/ \E w \in Writers : BeginStore(w) /\ UNCHANGED writerFrame
    \/ \E w \in Writers : InsertOrIgnore(w) /\ UNCHANGED writerFrame
    \/ \E w \in Writers : WriterReturn(w) /\ UNCHANGED writerFrame

SpecWriters == ShortInit /\ [][WritersNext]_vars

(***************************************************************************)
(* The shortlist writes when the store fails (sqlite3 raises at the INSERT *)
(* or at the commit)                                                       *)
(***************************************************************************)
\* the statement of a write at which sqlite3 raises
Faults == {"none", "insert", "commit"}

\* store_shortlisted_candidate when sqlite3 raises at fault: "except Exception as e:"
\* prints the message and returns False (the function returns a bool); the
\* connection is dropped with its transaction open, which rolls the INSERT back.
\* [result, table, fault (the failure that happened), raised]
store_failing(table, candidate_name, experiences, skill_list, now, fault) ==
    IF str_strip(candidate_name) = << >>
    THEN [result |-> FALSE, table |-> table, fault |-> "none", raised |-> "none"]
    ELSE IF fault # "none"
    THEN [result |-> FALSE, table |-> table, fault |-> fault, raised |-> "none"]
    ELSE [result |-> TRUE,
          table |-> store_shortlisted_candidate(table, candidate_name, experiences,
                                                skill_list, now).table,
          fault |-> "none", raised |-> "none"]

\* add_shortlisted_resume behind the SELECT that gave no row, when sqlite3 raises at
\* fault: "except Exception as e:" rolls back and returns the result with the message
insert_failing(table, sequence, call, fault) ==
    IF fault # "none"
    THEN [result |-> [success |-> FALSE, message |-> msg_error,
                      added_to_sqlite |-> FALSE, id |-> 0],
          table |-> table, sequence |-> sequence, fault |-> fault, raised |-> "none"]
    ELSE [result |-> insert_resume(table, sequence, call).result,
          table |-> insert_resume(table, sequence, call).table,
          sequence |-> insert_resume(table, sequence, call).sequence,
          fault |-> "none", raised |-> "none"]

\* add_shortlisted_resume behind the threshold test
select_then_insert(table, sequence, existing, call, fault) ==
    IF existing # 0
    THEN [result |-> result_existing(table, existing), table |-> table,
          sequence |-> sequence, fault |-> "none", raised |-> "none"]
    ELSE insert_failing(table, sequence, call, fault)

\* add_shortlisted_resume when sqlite3 raises at fault:
\* [result, table, sequence, fault (the failure that happened), raised]
add_failing(table, sequence, call, fault) ==
    IF below_threshold(call.match_percentage)
    THEN [result |-> [success |-> FALSE, message |-> msg_below_threshold,
                      added_to_sqlite |-> FALSE, id |-> 0],
          table |-> table, sequence |-> sequence, fault |-> "none", raised |-> "none"]
    ELSE select_then_insert(table, sequence, select_existing(table, call.candidate_id),
                            call, fault)

StoreFailing ==
    /\ sl_op = "none"
    /\ \E entry \in ShortlistEntries, fault \in Faults :
        \E stored \in {store_failing(sd_table, entry.name, entry.experiences,
                                     entry.skills, x_now, fault)} :
            /\ sd_table' = stored.table
            /\ sl_result' = stored.result
            /\ sl_fault' = stored.fault
            /\ sl_raised' = stored.raised
            /\ sl_args' = entry
    /\ sl_op' = "store_shortlisted_candidate"
    /\ sl_before' = [sd |-> sd_table, rs |-> rs_table]
    /\ UNCHANGED <<sd_recorded, rs_table, rs_sequence, rs_added, rs_listed>>

AddFailing ==
    /\ sl_op = "none"
    /\ \E call \in ResumeCalls, fault \in Faults :
        \E added \in {add_failing(rs_table, rs_sequence, call, fault)} :
            /\ rs_table' = added.table
            /\ rs_sequence' = added.sequence
            /\ sl_result' = added.result
            /\ sl_fault' = added.fault
            /\ sl_raised' = added.raised
            /\ sl_args' = call
    /\ sl_op' = "add_shortlisted_resume"
    /\ sl_before' = [sd |-> sd_table, rs |-> rs_table]
    /\ UNCHANGED <<sd_table, sd_recorded, rs_added, rs_listed>>

\* the caller has taken the result
FailingReturn ==
    /\ sl_op # "none"
    /\ sl_op' = "none"
    /\ sl_args' = << >>
    /\ sl_result' = FALSE
    /\ sl_fault' = "none"
    /\ sl_raised' = "none"
    /\ sl_before' = [sd |-> << >>, rs |-> << >>]
    /\ UNCHANGED <<sd_table, sd_recorded, rs_table, rs_sequence, rs_added, rs_listed>>

FailingNext ==
    \/ StoreFailing /\ UNCHANGED <<matchVars, storeVars, callVars, expVars, writerVars, sharedVars>>
    \/ AddFailing /\ UNCHANGED <<matchVars, storeVars, callVars, expVars, writerVars, sharedVars>>
    \/ FailingReturn /\ UNCHANGED <<matchVars, storeVars, callVars, expVars, writerVars, sharedVars>>

SpecFailing == ShortInit /\ [][FailingNext]_vars

(***************************************************************************)
(* Both shortlist classes on their common default path                     *)
(* (db_path = "shortlisted_resumes.db", table shortlisted_candidates)      *)
(***************************************************************************)
ShortlistClasses == {"ShortlistedDatabase", "ShortlistedResumesDB"}

\* "CREATE TABLE IF NOT EXISTS shortlisted_candidates (...)" run by class: the table
\* keeps the columns of the class that made it
create_table_if_not_exists(schema, class) == IF schema = "none" THEN class ELSE schema

\* store_shortlisted_candidate on the table made by schema: on the columns of
\* ShortlistedResumesDB the INSERT names work_experience_years, which the table does
\* not have; sqlite3.OperationalError, "except Exception": return False
store_on_schema(schema, table, candidate_name, experiences, skill_list, now) ==
    IF str_strip(candidate_name) = << >> THEN [result |-> FALSE, table |-> table]
    ELSE IF schema # "ShortlistedDatabase" THEN [result |-> FALSE, table |-> table]
    ELSE store_shortlisted_candidate(table, candidate_name, experiences, skill_list, now)

\* add_shortlisted_resume on the table made by schema: on the columns of
\* ShortlistedDatabase the SELECT names candidate_id, which the table does not have;
\* sqlite3.OperationalError, "except Exception": rollback, success = False
add_on_schema(schema, table, sequence, call) ==
    IF below_threshold(call.match_percentage)
    THEN [result |-> [success |-> FALSE, message |-> msg_below_threshold,
                      added_to_sqlite |-> FALSE, id |-> 0],
          table |-> table, sequence |-> sequence]
    ELSE IF schema # "ShortlistedResumesDB"
    THEN [result |-> [success |-> FALSE, message |-> msg_error,
                      added_to_sqlite |-> FALSE, id |-> 0],
          table |-> table, sequence |-> sequence]
    ELSE add_shortlisted_resume(table, sequence, call.candidate_id, call.candidate_name,
                                call.skills, call.work_experience, call.match_percentage)

\* ShortlistedDatabase() / ShortlistedResumesDB() with the default db_path
CreateObject ==
    /\ sl_op = "none"
    /\ \E class \in ShortlistClasses \ db_objects :
        /\ db_objects' = db_objects \cup {class}
        /\ db_schema' = create_table_if_not_exists(db_schema, class)
    /\ UNCHANGED <<db_table, db_sequence, sl_op, sl_args, sl_result, sl_before>>

SharedStore ==
    /\ sl_op = "none"
    /\ "ShortlistedDatabase" \in db_objects
    /\ \E entry \in WriterEntries :
        \E stored \in {store_on_schema(db_schema, db_table, entry.name,
                                       entry.experiences, entry.skills, x_now)} :
            /\ db_table' = stored.table
            /\ sl_result' = stored.result
            /\ sl_args' = entry
    /\ sl_op' = "store_shortlisted_candidate"
    /\ sl_before' = [sd |-> db_table, rs |-> db_table]
    /\ UNCHANGED <<db_objects, db_schema, db_sequence>>

SharedAdd ==
    /\ sl_op = "none"
    /\ "ShortlistedResumesDB" \in db_objects
    /\ \E call \in ResumeCalls :
        \E added \in {add_on_schema(db_schema, db_table, db_sequence, call)} :
            /\ db_table' = added.table
            /\ db_sequence' = added.sequence
            /\ sl_result' = added.result
            /\ sl_args' = call
    /\ sl_op' = "add_shortlisted_resume"
    /\ sl_before' = [sd |-> db_table, rs |-> db_table]
    /\ UNCHANGED <<db_objects, db_schema>>

\* the caller has taken the result
SharedReturn ==
    /\ sl_op # "none"
    /\ sl_op' = "none"
    /\ sl_args' = << >>
    /\ sl_result' = FALSE
    /\ sl_before' = [sd |-> << >>, rs |-> << >>]
    /\ UNCHANGED sharedVars

\* what no step on the common path changes
sharedFrame ==
    <<matchVars, storeVars, callVars, expVars, writerVars, faultVars, sd_table,
      sd_recorded, rs_table, rs_sequence, rs_added, rs_listed>>

SharedNext ==
    \/ CreateObject /\ UNCHANGED sharedFrame
    \/ SharedStore /\ UNCHANGED sharedFrame
    \/ SharedAdd /\ UNCHANGED sharedFrame
    \/ SharedReturn /\ UNCHANGED sharedFrame

SpecShared == ShortInit /\ [][SharedNext]_vars

(***************************************************************************)
(* Properties of _normalize_skill and _skills_match (SpecMatch)            *)
(***************************************************************************)
C5_infix(a, b) == \E i \in 1..(Len(b) - Len(a) + 1) : SubSeq(b, i, i + Len(a) - 1) = a
C5_prefix(a, b) == Len(a) <= Len(b) /\ SubSeq(b, 1, Len(a)) = a
C5_suffix(a, b) == Len(a) <= Len(b) /\ SubSeq(b, Len(b) - Len(a) + 1, Len(b)) = a
C5_one_synonym_set(r, c) ==
    \E k \in DOMAIN skill_synonyms :
        {r, c} \subseteq SeqRange(skill_synonyms[k].synonyms)

\* C5: _skills_match(required, candidate) is true exactly when, on the normalized
\* forms r and c: r = c; or r and c are in one synonym set; or r is a substring of c
\* and (len(r) >= 4 and c starts or ends with r, or len(r) >= 5 and
\* len(r)/len(c) >= 0.6); or c is a substring of r and len(c) >= 4 and
\* len(c)/len(r) >= 0.75.
C5_SkillsMatchExactly ==
    m_op = "_skills_match" =>
        LET r == _normalize_skill(m_required)
            c == _normalize_skill(m_candidate)
        IN  m_match <=>
              \/ r = c
              \/ C5_one_synonym_set(r, c)
              \/ /\ C5_infix(r, c)
                 /\ \/ Len(r) >= 4 /\ (C5_prefix(r, c) \/ C5_suffix(r, c))
                    \/ Len(r) >= 5 /\ 5 * Len(r) >= 3 * Len(c)
              \/ C5_infix(c, r) /\ Len(c) >= 4 /\ 4 * Len(c) >= 3 * Len(r)

\* a match that only the length-ratio gate grants: r inside c, away from both ends
C5_Witness ==
    /\ m_op = "_skills_match"
    /\ m_match
    /\ LET r == _normalize_skill(m_required)
           c == _normalize_skill(m_candidate)
       IN  /\ r # c
           /\ ~C5_one_synonym_set(r, c)
           /\ C5_infix(r, c)
           /\ ~C5_prefix(r, c)
           /\ ~C5_suffix(r, c)

\* C6: for two spellings of one synonym set, _skills_match holds in both directions.
C6_SynonymsSymmetric ==
    (m_op = "_skills_match" /\ C5_one_synonym_set(m_required, m_candidate)) =>
        /\ m_match
        /\ _skills_match(m_candidate, m_required)

C6_Witness ==
    /\ m_op = "_skills_match"
    /\ m_required = w_js
    /\ m_candidate = w_javascript
    /\ m_match

C7_expected(s) ==
    LET kept == SelectSeq(s, LAMBDA ch : ch \notin {".", "-", "_", " ", "\t"})
    IN  [i \in DOMAIN kept |-> char_lower(kept[i])]

\* C7: _normalize_skill lowercases and deletes every '.', '-', '_' and whitespace
\* character; "Node.js", "node_js" and "NODE JS" give "nodejs"; the empty string
\* gives the empty string.
C7_NormalizeSkill ==
    m_op = "_normalize_skill" =>
        /\ m_normalized = C7_expected(m_required)
        /\ m_required \in {s_Node_js, s_node_js, s_NODE_JS} => m_normalized = w_nodejs
        /\ m_required = << >> => m_normalized = << >>

C7_Witness ==
    /\ m_op = "_normalize_skill"
    /\ m_required = s_NODE_JS
    /\ m_normalized = w_nodejs

(***************************************************************************)
(* Properties of the two searches (Spec)                                   *)
(***************************************************************************)
RoleSearchDone == op = "search_by_job_role" /\ response.success
TextSearchDone == op = "search_candidates" /\ raised = "none"

\* Python's round() of n/d for n >= 0, d > 0: to the nearest integer, halves to even
round_ratio(n, d) ==
    LET q == n \div d
        r == n % d
    IN  IF 2 * r < d THEN q
        ELSE IF 2 * r > d THEN q + 1
        ELSE IF q % 2 = 0 THEN q ELSE q + 1

\* the position of candidate id in the list .all() returned
retrieved_at(id) == CHOOSE i \in DOMAIN retrieved : retrieved[i] = id

\* C1: in search_by_job_role, match_percentage = round(matched_count /
\* total_required * 100) when total_required > 0 (2 of 3 gives 67), 0 when
\* total_required = 0, and always an integer in 0..100.
C1_PercentageIsRounded ==
    RoleSearchDone =>
        \A i \in DOMAIN scored :
            /\ scored[i].match_percentage \in 0..100
            /\ scored[i].match_percentage =
                  IF scored[i].total_required > 0
                  THEN round_ratio(100 * scored[i].matched_count, scored[i].total_required)
                  ELSE 0

\* C2: every candidate in the result of search_by_job_role has match_percentage >= 70,
\* every stored candidate whose match_percentage is >= 70 is in the result, and a
\* candidate matching 1 of 3 required skills gets 33 and is excluded.
C2_ThresholdFilter ==
    RoleSearchDone =>
        LET listed == {response.candidates[j].id : j \in DOMAIN response.candidates}
        IN  /\ \A j \in DOMAIN response.candidates :
                  response.candidates[j].match_percentage >= 70
            /\ \A id \in DOMAIN candidates : \E i \in DOMAIN scored : scored[i].id = id
            /\ \A i \in DOMAIN scored :
                  /\ scored[i].match_percentage >= 70 => scored[i].id \in listed
                  /\ (scored[i].matched_count = 1 /\ scored[i].total_required = 3) =>
                        (scored[i].match_percentage = 33 /\ scored[i].id \notin listed)

C2_Witness ==
    /\ RoleSearchDone
    /\ \E i \in DOMAIN scored :
          /\ scored[i].matched_count = 1
          /\ scored[i].total_required = 3
          /\ scored[i].match_percentage = 33
          /\ \A j \in DOMAIN response.candidates : response.candidates[j].id # scored[i].id

\* the ranked list either search returned
C3_ranked == IF op = "search_by_job_role" THEN response.candidates ELSE response

\* C3: the results of search_candidates and of search_by_job_role are ordered by
\* match_percentage non-increasing, and results of equal match_percentage keep the
\* order in which the candidates were retrieved from the store.
C3_RankedStable ==
    (RoleSearchDone \/ TextSearchDone) =>
        \A i, j \in DOMAIN C3_ranked :
            i < j =>
              /\ C3_ranked[i].match_percentage >= C3_ranked[j].match_percentage
              /\ C3_ranked[i].match_percentage = C3_ranked[j].match_percentage =>
                    retrieved_at(C3_ranked[i].id) < retrieved_at(C3_ranked[j].id)

\* the sort moved a candidate retrieved later in front of one retrieved earlier
C3_Witness ==
    /\ RoleSearchDone \/ TextSearchDone
    /\ Len(C3_ranked) = 2
    /\ C3_ranked[1].match_percentage > C3_ranked[2].match_percentage
    /\ retrieved_at(C3_ranked[1].id) > retrieved_at(C3_ranked[2].id)

C4_fold(ch) == IF ch \in {" ", "-", "_"} THEN "_" ELSE char_lower(ch)
C4_same_key(given, key) ==
    Len(given) = Len(key) /\ \A i \in DOMAIN key : C4_fold(given[i]) = key[i]

\* C4: search_by_job_role finds the role under the key lowercased with every space
\* and hyphen replaced by underscore, so spellings differing in case or in
\* space/hyphen/underscore find the same role; when no role has that key the result
\* has success = False, lists exactly the available role keys and has no candidates.
C4_RoleKeyLookup ==
    op = "search_by_job_role" =>
        LET found == {i \in DOMAIN job_roles : C4_same_key(arg, job_roles[i].key)}
        IN  IF found # {}
            THEN /\ response.success
                 /\ \E i \in found :
                       /\ response.job_role = job_roles[i].title
                       /\ response.required_skills = job_roles[i].skills
            ELSE /\ ~response.success
                 /\ DOMAIN response = {"success", "message", "available_roles"}
                 /\ response.available_roles =
                       [i \in DOMAIN job_roles |-> job_roles[i].key]

C4_Witness ==
    /\ op = "search_by_job_role"
    /\ arg = k_fullstack
    /\ ~response.success
    /\ response.available_roles = <<k_full_stack, k_backend, k_intern, k_frontend>>

\* C8: in search_by_job_role matched_skills and missing_skills partition the required
\* skills in required order: a required skill is matched iff _skills_match(required, s)
\* holds for some candidate skill s, and matched_count + len(missing_skills) =
\* total_required; ["Python","React"] against ["python","reactjs"] gives 100 and no
\* missing skill.
C8_MatchedMissingPartition ==
    RoleSearchDone =>
        \A i \in DOMAIN scored :
            LET e == scored[i]
                required == response.required_skills
                mine == skill_names_of(candidates[e.id])
                has(r) == \E k \in DOMAIN mine : _skills_match(r, mine[k])
            IN  /\ e.matched_skills = SelectSeq(required, has)
                /\ e.missing_skills = SelectSeq(required, LAMBDA r : ~has(r))
                /\ e.matched_count = Len(e.matched_skills)
                /\ e.total_required = Len(required)
                /\ e.matched_count + Len(e.missing_skills) = e.total_required
                /\ (required = <<s_Python, s_React>> /\ mine = <<s_python, s_React_js>>) =>
                      (e.match_percentage = 100 /\ e.missing_skills = << >>)

C8_Witness ==
    /\ RoleSearchDone
    /\ response.required_skills = <<s_Python, s_React>>
    /\ \E i \in DOMAIN scored :
          /\ skill_names_of(candidates[scored[i].id]) = <<s_python, s_React_js>>
          /\ scored[i].match_percentage = 100
          /\ scored[i].missing_skills = << >>

C9_terms == _parse_search_query(arg)
C9_found(id) ==
    SelectSeq(C9_terms,
        LAMBDA t : \E k \in DOMAIN candidates[id].skills :
                      str_in(t, str_lower(skills[candidates[id].skills[k]].name)))
C9_percentage(id) ==
    IF C9_terms = << >> THEN 0 ELSE round_ratio(100 * Len(C9_found(id)), Len(C9_terms))

\* C9: in free-text search each candidate's match_percentage is round(100 * k / n), n
\* the number of terms of the query and k the number of terms contained in one of the
\* candidate's skill names, and a candidate is in the result iff that value is >= 70.
C9_TextPercentageIsRounded ==
    TextSearchDone =>
        /\ \A i \in DOMAIN scored :
              scored[i].match_percentage = C9_percentage(scored[i].id)
        /\ \A id \in DOMAIN candidates :
              (C9_percentage(id) >= 70) <=>
                  (\E j \in DOMAIN response : response[j].id = id)

\* C10: free-text search compares skills without regard to case and to '.', '-', '_'
\* and whitespace: a query that is one normalized term (such as "reactjs") finds every
\* candidate having a skill whose normalized form is that term (such as "React.js").
C10_TextSearchIgnoresSeparators ==
    (TextSearchDone /\ C9_terms = <<arg>> /\ _normalize_skill(arg) = arg) =>
        \A id \in DOMAIN candidates :
            (\E k \in DOMAIN candidates[id].skills :
                _normalize_skill(skills[candidates[id].skills[k]].name) = arg)
            => \E j \in DOMAIN response : response[j].id = id


\* C11: a free-text search with an education filter completes normally, and every
\* candidate of its result has an education entry whose degree contains the filter
\* text, compared without regard to case.
C11_EducationFilter ==
    (op = "search_candidates" /\ filters # << >>) =>
        /\ raised = "none"
        /\ \A j \in DOMAIN response :
               \E e \in DOMAIN education :
                   /\ education[e].candidate_id = response[j].id
                   /\ str_in(str_lower(filters), str_lower(education[e].degree))

CalculateDone == x_op = "_calculate_work_experience_years"
ParseDateDone == x_op = "_parse_date"

\* what entry i added to total_months
added_by(i) == x_totals[i + 1] - x_totals[i]

\* the months a duration text of the pool states with "<N> year(s)" and "<N> month(s)",
\* -1 for a text without such a pattern
C12_stated(duration) ==
    CASE duration = t_2_years_3_months -> 27
      [] duration = t_18_Months -> 18
      [] duration = t_0_years -> 0
      [] OTHER -> -1

\* C12: an entry whose duration text holds a "<N> year(s)" and/or "<N> month(s)"
\* pattern, for any N >= 0, adds exactly years * 12 + months, whatever its start and
\* end dates are.
C12_DurationTextWins ==
    CalculateDone =>
        \A i \in DOMAIN x_experiences :
            C12_stated(x_experiences[i].duration) >= 0 =>
                added_by(i) = C12_stated(x_experiences[i].duration)

\* C13: the result is the sum of the entries' months divided by 12 and rounded to one
\* decimal; an entry with "2 years 3 months" adds 27 months and two of them give 4.5.
C13_TotalRounded ==
    CalculateDone =>
        LET total == x_totals[Len(x_totals)]
        IN  /\ x_totals[1] = 0
            /\ 12 * x_years - 10 * total <= 6
            /\ 10 * total - 12 * x_years <= 6
            /\ \A i \in DOMAIN x_experiences :
                   x_experiences[i].duration = t_2_years_3_months => added_by(i) = 27
            /\ (/\ Len(x_experiences) = 2
                /\ \A i \in 1..2 : x_experiences[i].duration = t_2_years_3_months)
               => total = 54 /\ x_years = 45

C13_Witness ==
    /\ CalculateDone
    /\ Len(x_experiences) = 2
    /\ \A i \in 1..2 : x_experiences[i].duration = t_2_years_3_months
    /\ x_years = 45

\* the end of an entry as the contract resolves it: the clock for a missing end date
\* and for one containing present, current or now
C14_end(exp) ==
    IF exp.end_date \in {s_empty, t_present, t_Current} THEN x_now
    ELSE _parse_date(exp.end_date, x_now)

C14_start(exp) ==
    IF exp.start_date = t_present THEN x_now ELSE _parse_date(exp.start_date, x_now)

C14_months_diff(exp) ==
    (C14_end(exp).year - C14_start(exp).year) * 12
        + (C14_end(exp).month - C14_start(exp).month)

\* C14: an entry without a usable duration text and with a start year > 0 adds
\* max(0, (endYear - startYear) * 12 + (endMonth - startMonth)), the end being the
\* current year and month when the end date is missing or says present, current or
\* now; "Jan 2020" to "present" in June 2024 adds 53.
C14_DateDifference ==
    CalculateDone =>
        \A i \in DOMAIN x_experiences :
            LET exp == x_experiences[i]
            IN  (/\ exp.duration \in {s_empty, t_two_years}
                 /\ exp.start_date # s_empty
                 /\ C14_start(exp).year > 0)
                => /\ added_by(i) = IF C14_months_diff(exp) > 0
                                    THEN C14_months_diff(exp) ELSE 0
                   /\ (/\ exp.start_date = t_Jan_2020
                       /\ exp.end_date = t_present
                       /\ x_now = [year |-> 2024, month |-> 6]) => added_by(i) = 53

C14_Witness ==
    /\ CalculateDone
    /\ x_now = [year |-> 2024, month |-> 6]
    /\ x_experiences = <<Experience(s_empty, t_Jan_2020, t_present)>>
    /\ x_totals = <<0, 53>>

\* C15: _parse_date takes the month from a month name when the text has one, from a
\* numeric "<1-2 digits>/" or "<1-2 digits>-" prefix in 1..12 only when it has no
\* month name, and gives 1 when it has neither.
C15_MonthNameFirst ==
    (/\ ParseDateDone
     /\ x_date # s_empty
     /\ x_date \notin {t_present, t_Current, t_Until_now}) =>
        LET date_str == str_strip(str_lower(x_date))
            named == search_month_name(date_str)
            numbered == search_month_number(date_str)
        IN  x_parsed.month =
                IF named # 0 THEN named
                ELSE IF numbered.found /\ numbered.value \in 1..12 THEN numbered.value
                ELSE 1

\* C16: the result is never negative and no entry lowers the total; an entry without a
\* usable duration adds nothing when its start date is missing or has no year, or
\* when its end lies before its start.
C16_NeverNegative ==
    CalculateDone =>
        /\ x_years >= 0
        /\ \A i \in DOMAIN x_experiences :
               LET exp == x_experiences[i]
               IN  /\ added_by(i) >= 0
                   /\ (/\ exp.duration \in {s_empty, t_two_years}
                       /\ \/ exp.start_date = s_empty
                          \/ C14_start(exp).year = 0
                          \/ C14_months_diff(exp) < 0)
                      => added_by(i) = 0

C16_Witness ==
    /\ CalculateDone
    /\ x_experiences = <<Experience(s_empty, t_Jan_2020, t_Dec_2019)>>
    /\ x_totals = <<0, 0>>
    /\ x_years = 0

StoreDone == sl_op = "store_shortlisted_candidate"
BatchDone == sl_op = "store_multiple_candidates"
AddDone   == sl_op = "add_shortlisted_resume"

c_python_sql == <<"p", "y", "t", "h", "o", "n", ",", " ", "s", "q", "l">>

\* the canonical skills string of each skill list of the pool: lowercase, trimmed,
\* blank entries dropped, deduplicated, sorted, joined by ", "
C19_canonical(skill_list) ==
    CASE skill_list = l_Python_SQL -> c_python_sql
      [] skill_list = l_sql_python -> c_python_sql
      [] skill_list = l_Python -> s_python
      [] OTHER -> s_empty

\* the trimmed name of each name of the pool
trimmed_name(name) ==
    CASE name = n_Alice_padded -> n_Alice
      [] name = s_blank -> s_empty
      [] OTHER -> name

\* the rows of ShortlistedDatabase's table for an entry's name and skill set
rows_of(table, entry) ==
    {i \in DOMAIN table :
        /\ table[i].candidate_name = trimmed_name(entry.name)
        /\ table[i].skills = C19_canonical(entry.skills)}

\* C17: recording an entry that is already recorded leaves exactly one row and reports
\* success: store_shortlisted_candidate with a name and skill set that has a row, and
\* add_shortlisted_resume with a candidate_id that has a row and match_percentage >= 70.
C17_RecordTwice ==
    /\ (StoreDone /\ rows_of(sl_before.sd, sl_args) # {}) =>
           /\ sl_result = TRUE
           /\ Cardinality(rows_of(sd_table, sl_args)) = 1
           /\ sd_table = sl_before.sd
    /\ (/\ AddDone
        /\ sl_args.match_percentage >= 70
        /\ \E i \in DOMAIN sl_before.rs :
               sl_before.rs[i].candidate_id = sl_args.candidate_id) =>
           /\ sl_result.success = TRUE
           /\ Cardinality({i \in DOMAIN rs_table :
                              rs_table[i].candidate_id = sl_args.candidate_id}) = 1
           /\ rs_table = sl_before.rs

C17_Witness ==
    /\ StoreDone
    /\ sl_args.name = n_Alice
    /\ sl_args.skills = l_Python_SQL
    /\ rows_of(sl_before.sd, sl_args) # {}
    /\ sl_result = TRUE
    /\ Cardinality(rows_of(sd_table, sl_args)) = 1

\* C18: the rows are keyed by (name, normalized skills, normalized projects): the
\* table holds one row for each distinct triple that was recorded, so two entries with
\* the same name and skills and different projects have two rows.
C18_KeyHasProjects ==
    Len(sd_table) = Cardinality(sd_recorded)

\* C19: the stored skills string is the canonical form of the entry's skill set, so
\* entries of one name whose skill lists differ only in order, case, padding, repeated
\* or blank entries share a single row.
C19_CanonicalSkills ==
    (StoreDone /\ trimmed_name(sl_args.name) # s_empty) =>
        /\ \E i \in DOMAIN sd_table :
               /\ sd_table[i].candidate_name = trimmed_name(sl_args.name)
               /\ sd_table[i].skills = C19_canonical(sl_args.skills)
        /\ Cardinality(rows_of(sd_table, sl_args)) = 1
        /\ \A i \in DOMAIN sd_table :
               sd_table[i].skills \in {c_python_sql, s_python, s_empty}

C19_Witness ==
    /\ StoreDone
    /\ sl_args.skills = l_sql_python
    /\ sl_before.sd # << >>
    /\ \A i \in DOMAIN sl_before.sd : sl_before.sd[i].work_experience_years = 45
    /\ sd_table = sl_before.sd
    /\ sl_result = TRUE

\* C20: store_multiple_candidates returns the number of items whose store attempt
\* succeeded (the items with a non-blank name), a duplicate of a stored tuple
\* included, and leaves one row for each such item's tuple, new rows in item order.
C20_BatchCount ==
    BatchDone =>
        LET attempted == {i \in DOMAIN sl_args : trimmed_name(sl_args[i].name) # s_empty}
            fresh == {i \in attempted :
                        /\ rows_of(sl_before.sd, sl_args[i]) = {}
                        /\ \A j \in attempted :
                               j < i => rows_of(sd_table, sl_args[j])
                                            # rows_of(sd_table, sl_args[i])}
        IN  /\ sl_result = Cardinality(attempted)
            /\ \A i \in attempted : Cardinality(rows_of(sd_table, sl_args[i])) = 1
            /\ Len(sd_table) = Len(sl_before.sd) + Cardinality(fresh)
            /\ SubSeq(sd_table, 1, Len(sl_before.sd)) = sl_before.sd
            /\ \A i, j \in fresh :
                   i < j => \A a \in rows_of(sd_table, sl_args[i]),
                               b \in rows_of(sd_table, sl_args[j]) : a < b

C20_Witness ==
    /\ BatchDone
    /\ Len(sl_args) = 2
    /\ sl_args[1] = sl_args[2]
    /\ sl_args[1].name = n_Alice
    /\ sl_before.sd = << >>
    /\ sl_result = 2
    /\ Len(sd_table) = 1

(***************************************************************************)
(* Claims on the shortlist of ShortlistedResumesDB under adds and removes  *)
(***************************************************************************)
RemoveDone == sl_op = "remove_shortlisted"

\* the candidate_ids that have a row
listed_ids(table) == {table[i].candidate_id : i \in DOMAIN table}

\* C26: add_shortlisted_resume inserts only for match_percentage >= 70: a call below 70
\* returns success = False and added_to_sqlite = False and leaves the table as it was,
\* and after any adds and removes every row was inserted by a call with
\* match_percentage >= 70.
C26_OnlyFromSeventy ==
    /\ (AddDone /\ sl_args.match_percentage < 70) =>
           /\ sl_result.success = FALSE
           /\ sl_result.added_to_sqlite = FALSE
           /\ rs_table = sl_before.rs
    /\ \A i \in DOMAIN rs_table :
           \E call \in rs_added :
               /\ call.id = rs_table[i].id
               /\ call.candidate_id = rs_table[i].candidate_id
               /\ call.match_percentage >= 70

C26_Witness ==
    /\ AddDone
    /\ sl_args.match_percentage = 69
    /\ sl_result.success = FALSE
    /\ Len(rs_table) = 1
    /\ rs_table[1].id = 2
    /\ rs_table = sl_before.rs

\* C27: a candidate_id has a row iff its last successful operation was an add not
\* followed by a remove of that record; remove_shortlisted of an existing record id
\* deletes exactly that row, remove_shortlisted of an absent id returns success = False
\* and changes nothing, and an add with match_percentage >= 70 for a candidate_id
\* without a row inserts (added_to_sqlite = True), also after a remove.
C27_AddRemove ==
    /\ listed_ids(rs_table) = {e.candidate_id : e \in rs_listed}
    /\ \A e \in rs_listed : \E i \in DOMAIN rs_table :
           rs_table[i].id = e.id /\ rs_table[i].candidate_id = e.candidate_id
    /\ (RemoveDone /\ \E i \in DOMAIN sl_before.rs : sl_before.rs[i].id = sl_args) =>
           /\ sl_result.success = TRUE
           /\ rs_table = SelectSeq(sl_before.rs, LAMBDA row : row.id # sl_args)
           /\ Len(rs_table) = Len(sl_before.rs) - 1
    /\ (RemoveDone /\ \A i \in DOMAIN sl_before.rs : sl_before.rs[i].id # sl_args) =>
           /\ sl_result.success = FALSE
           /\ rs_table = sl_before.rs
    /\ (/\ AddDone
        /\ sl_args.match_percentage >= 70
        /\ sl_args.candidate_id \notin listed_ids(sl_before.rs)) =>
           /\ sl_result.success = TRUE
           /\ sl_result.added_to_sqlite = TRUE
           /\ \E i \in DOMAIN rs_table :
                  /\ rs_table[i].id = sl_result.id
                  /\ rs_table[i].candidate_id = sl_args.candidate_id

\* candidate 1 was added as record 1, removed, and added again as record 2
C27_Witness ==
    /\ AddDone
    /\ sl_args.candidate_id = 1
    /\ sl_result.added_to_sqlite = TRUE
    /\ sl_result.id = 2
    /\ [id |-> 1, candidate_id |-> 1, match_percentage |-> 100] \in rs_added
    /\ listed_ids(rs_table) = {1}

(***************************************************************************)
(* Short required skills (SpecMatch)                                       *)
(***************************************************************************)
\* C25: a required skill whose normalized form has fewer than 4 characters matches a
\* candidate skill exactly when the normalized forms are equal or in one synonym set,
\* never by a substring test: "r" does not match "react", "c" does not match "css".
C25_ShortRequired ==
    /\ (m_op = "_skills_match" /\ Len(C7_expected(m_required)) < 4) =>
           (m_match <=> \/ C7_expected(m_required) = C7_expected(m_candidate)
                        \/ C5_one_synonym_set(C7_expected(m_required),
                                              C7_expected(m_candidate)))
    /\ (m_op = "_skills_match" /\ m_required = w_r /\ m_candidate = w_react) => ~m_match
    /\ (m_op = "_skills_match" /\ m_required = w_c /\ m_candidate = s_css) => ~m_match

\* "r" is a prefix of "react" and does not match it
C25_Witness ==
    /\ m_op = "_skills_match"
    /\ m_required = w_r
    /\ m_candidate = w_react
    /\ C5_prefix(C7_expected(m_required), C7_expected(m_candidate))
    /\ ~m_match

(***************************************************************************)
(* Defined results for empty inputs (Spec, SpecMatch)                      *)
(***************************************************************************)
\* _skills_match returns for every pair of skill strings, the empty string and the
\* strings made of separators included
C23_skills_match_defined ==
    m_op = "_skills_match" => m_raised = "none" /\ m_match \in BOOLEAN

\* search_by_job_role returns; a role without required skills gives every candidate
\* 0, and a candidate without skills has every required skill missing
C23_role_search_defined ==
    op = "search_by_job_role" =>
        /\ raised = "none"
        /\ \A i \in DOMAIN scored :
               /\ scored[i].total_required = 0 => scored[i].match_percentage = 0
               /\ scored[i].all_candidate_skills = << >> =>
                      /\ scored[i].matched_skills = << >>
                      /\ scored[i].missing_skills = response.required_skills

\* search_candidates for a query without terms returns the empty result, every
\* candidate at 0
C23_text_search_defined ==
    (op = "search_candidates" /\ _parse_search_query(arg) = << >>) =>
        /\ raised = "none"
        /\ \A i \in DOMAIN scored : scored[i].match_percentage = 0
        /\ response = << >>

\* C23: the matching and scoring operations return a defined result and never raise
\* for empty collections: search_by_job_role for a role without required skills or a
\* candidate without skills, and search_candidates for a query that yields no terms.
C23_NeverRaises ==
    C23_role_search_defined /\ C23_text_search_defined

\* the part of C23_text_search_defined for requests without an education filter
C23_text_search_unfiltered ==
    (op = "search_candidates" /\ _parse_search_query(arg) = << >> /\ filters = << >>) =>
        /\ raised = "none"
        /\ \A i \in DOMAIN scored : scored[i].match_percentage = 0
        /\ response = << >>
        /\ Len(scored) = Len(candidates)

(***************************************************************************)
(* Concurrent shortlist writers (SpecWriters)                              *)
(***************************************************************************)
\* writer w has finished a call of fn
finished(w, fn) == w_pc[w] = "done" /\ w_call[w].fn = fn

\* C21: under every interleaving of concurrent writers the tables never hold two rows
\* with one key: (candidate_name, skills) in the table of ShortlistedDatabase,
\* candidate_id in the table of ShortlistedResumesDB.
C21_NoDuplicateRows ==
    /\ \A i, j \in DOMAIN sd_table :
           (/\ sd_table[i].candidate_name = sd_table[j].candidate_name
            /\ sd_table[i].skills = sd_table[j].skills) => i = j
    /\ \A i, j \in DOMAIN rs_table :
           rs_table[i].candidate_id = rs_table[j].candidate_id => i = j

\* both writers have run add_shortlisted_resume for candidate 1, both SELECTs found no
\* row, both went on to the INSERT, and the table has one row
C21_Witness ==
    /\ \A w \in Writers :
           /\ finished(w, "add_shortlisted_resume")
           /\ w_call[w].args.candidate_id = 1
           /\ w_call[w].args.match_percentage >= 70
           /\ w_seen[w] = 0
    /\ Cardinality({i \in DOMAIN rs_table : rs_table[i].candidate_id = 1}) = 1

\* C22: a duplicate shortlist write is never reported as an error: every call of
\* add_shortlisted_resume with match_percentage >= 70 returns success = True, in
\* every interleaving of the callers' check and insert steps.
C22_DuplicateIsSuccess ==
    \A w \in Writers :
        (finished(w, "add_shortlisted_resume") /\ w_call[w].args.match_percentage >= 70)
            => w_result[w].success = TRUE

(***************************************************************************)
(* A failing store (SpecFailing)                                           *)
(***************************************************************************)
\* the result is a failure that carries a message: a dict with success = False and a
\* message; the bool that store_shortlisted_candidate returns carries none
C24_failure_with_message ==
    IF StoreDone THEN sl_result \notin BOOLEAN
    ELSE sl_result.success = FALSE /\ sl_result.message # ""

\* C24: when the store fails during the insert of store_shortlisted_candidate or of
\* add_shortlisted_resume, the caller receives a failure result that carries a
\* message, no exception escapes, and the table is as it was before the call.
C24_FailureResult ==
    sl_fault # "none" =>
        /\ C24_failure_with_message
        /\ sl_raised = "none"
        /\ sd_table = sl_before.sd
        /\ rs_table = sl_before.rs

\* the part of C24_FailureResult for add_shortlisted_resume, and for
\* store_shortlisted_candidate without the message
C24_all_but_store_message ==
    sl_fault # "none" =>
        /\ AddDone => C24_failure_with_message
        /\ StoreDone => sl_result = FALSE
        /\ sl_raised = "none"
        /\ sd_table = sl_before.sd
        /\ rs_table = sl_before.rs

(***************************************************************************)
(* The two classes on one file (SpecShared)                                *)
(***************************************************************************)
\* C28: with ShortlistedDatabase and ShortlistedResumesDB both created on the common
\* default path, in either order, store_shortlisted_candidate with a non-blank name
\* returns True and its row is in the table, and add_shortlisted_resume with
\* match_percentage >= 70 returns success = True and its row is in the table.
C28_StoresCoexist ==
    db_objects = ShortlistClasses =>
        /\ (StoreDone /\ trimmed_name(sl_args.name) # << >>) =>
               /\ sl_result = TRUE
               /\ \E i \in DOMAIN db_table :
                      /\ db_table[i].candidate_name = trimmed_name(sl_args.name)
                      /\ db_table[i].skills = C19_canonical(sl_args.skills)
        /\ (AddDone /\ sl_args.match_percentage >= 70) =>
               /\ sl_result.success = TRUE
               /\ \E i \in DOMAIN db_table :
                      /\ "candidate_id" \in DOMAIN db_table[i]
                      /\ db_table[i].candidate_id = sl_args.candidate_id

\* ShortlistedDatabase made the table: add_shortlisted_resume fails
C28_add_fails_after_sd ==
    /\ db_objects = ShortlistClasses
    /\ db_schema = "ShortlistedDatabase"
    /\ AddDone
    /\ sl_args.match_percentage >= 70
    /\ sl_result.success = FALSE
    /\ db_table = sl_before.rs

\* ShortlistedResumesDB made the table: store_shortlisted_candidate fails
C28_store_fails_after_rs ==
    /\ db_objects = ShortlistClasses
    /\ db_schema = "ShortlistedResumesDB"
    /\ StoreDone
    /\ sl_args.name = n_Alice
    /\ sl_result = FALSE
    /\ db_table = sl_before.sd
=============================================================================
